---- MODULE Spec2Model ----
(***************************************************************************)
(* Sales / reservations ledger of Server_etsdieumerci: the handlers of the *)
(* sales router (create, edit, complete, reopen, void, delete), the        *)
(* product stock they reserve and release, and the per-customer aggregate  *)
(* they maintain.  Every `await` on the database is one atomic step, so    *)
(* the interleavings of concurrent requests are the interleavings of       *)
(* these steps.                                                            *)
(*                                                                         *)
(* The repository holds three versions of the sales router:                *)
(*   "sales_js"    src/routes/sales.js                                     *)
(*   "part_002"    src/unnamed/part_002                                    *)
(*   "expenses_js" src/routes/expenses.js, lines 1322-2582                 *)
(* The variable `variant` says which one is mounted; it never changes.     *)
(***************************************************************************)
EXTENDS Integers, Sequences, FiniteSets, TLC

\* ------------------------------------------------------------------ bounds
InitStock == 2      \* stock of every product before the first request
MaxQty    == 2      \* largest total quantity an items list carries
MaxPrice  == 1      \* largest unit price a request carries
MaxItems  == 2      \* longest items list a request carries
MaxReq    == 3      \* requests of a run in which requests interleave
MaxSeqReq == 3      \* requests of a run in which requests run one at a time
MaxSales  == 2      \* Sale documents ever created in a run
MaxCreates == 3     \* Sale documents of a run that consists of creates only
MaxAmount == 1      \* largest amount an expense-typed edit carries
MaxExp    == 2      \* Expense documents ever created in a run
MaxExpReq == 4      \* requests to the expense router in a run
MaxEntries == 1     \* Entry documents ever created in a run
MaxEntryAmount == 2 \* largest amount an entry request carries
MaxEntReq == 5      \* requests to the entries router in a run

\* constants of the timeframe resolver
MinYear == 2000
MaxYear == 2100
DayMs   == 86400000

Variants == {"sales_js", "part_002", "expenses_js"}
Products == {"p1", "p2"}
Phones   == {"ph1", "ph2"}
BuyerPhones == {"ph1"}        \* the phones create requests carry
Slots    == {"s1", "s2"}
Roles    == {"admin", "manager", "cashier"}
SaleIds == 1..MaxCreates

NoSale == [none |-> TRUE]
NoCust == [none |-> TRUE]
NoId   == "null"
NoType == "undefined"
NoRole == "none"     \* the role once the handler's permission checks are over
Null   == 0          \* a null date; the clock starts above it

\* quantity 0 and price 0 are the malformed inputs of the item validation
Qtys   == 0..MaxQty
Prices == 0..MaxPrice
Item   == [productId : Products, quantity : Qtys, price : Prices]
AllLists == UNION {[1..n -> Item] : n \in 1..MaxItems}

VARIABLES variant, stock, sales, customers, nextId, reqCount, req, released

\* the expense collection and the requests of the expense router
VARIABLES expenses, ereq, nextExp, expCount

\* the last list request: its query string, the server's clock and the answer
VARIABLES query, clock, answer

\* the entry collection and the requests of the entries router
VARIABLES entries, nreq, nextEntry, entCount

expVars == <<expenses, ereq, nextExp, expCount>>
tfVars  == <<query, clock, answer>>
entVars == <<entries, nreq, nextEntry, entCount>>

vars == <<variant, stock, sales, customers, nextId, reqCount, req, released,
          expenses, ereq, nextExp, expCount, query, clock, answer,
          entries, nreq, nextEntry, entCount>>

\* ------------------------------------------------------------ pure helpers
RECURSIVE SumSeq(_)
SumSeq(s) == IF s = <<>> THEN 0 ELSE Head(s) + SumSeq(Tail(s))

RECURSIVE SumSet(_, _)
SumSet(S, f) ==
  IF S = {} THEN 0
  ELSE LET x == CHOOSE y \in S : TRUE IN f[x] + SumSet(S \ {x}, f)

MinOf(S) == CHOOSE x \in S : \A y \in S : x <= y
MaxOf(S) == CHOOSE x \in S : \A y \in S : x >= y

\* total quantity of product p in an items list
QtyOf(items, p) ==
  SumSeq([i \in 1..Len(items) |->
            IF items[i].productId = p THEN items[i].quantity ELSE 0])

\* subtotal += Number(price) * Number(quantity)
Subtotal(items) ==
  SumSeq([i \in 1..Len(items) |-> items[i].price * items[i].quantity])

\* if (!productId || !quantity || quantity <= 0 || !price || price < 0) -> 400
ItemInvalid(it) == it.quantity <= 0 \/ it.price <= 0

\* the items lists requests carry: a malformed item comes alone in its list
\* and names p1 (quantity 0, price 0, or both)
ItemLists ==
  {its \in AllLists :
     /\ SumSeq([i \in 1..Len(its) |-> its[i].quantity]) <= MaxQty
     /\ ItemInvalid(its[1]) =>
          Len(its) = 1 /\ its[1].productId = "p1" /\ its[1].quantity <= 1
     /\ Len(its) > 1 => ~ItemInvalid(its[2])}

\* Array.prototype.find: the first element with that productId, 0 if none
FindIdx(items, p) ==
  IF \E i \in 1..Len(items) : items[i].productId = p
  THEN MinOf({i \in 1..Len(items) : items[i].productId = p})
  ELSE 0

\* the stockAdjustments list of an edit: first one entry per new item (the
\* quantity difference to the first old item of that product, or the whole
\* quantity of an added product), then one per old item whose product is gone
stockAdjustments(old, new) ==
  LET forNew == [i \in 1..Len(new) |->
        LET k == FindIdx(old, new[i].productId) IN
        [productId |-> new[i].productId,
         adjustment |-> IF k # 0 THEN -(new[i].quantity - old[k].quantity)
                                 ELSE -new[i].quantity]]
      forOld == [i \in 1..Len(old) |->
        [productId |-> old[i].productId,
         adjustment |-> IF FindIdx(new, old[i].productId) = 0
                        THEN old[i].quantity ELSE 0]]
  IN SelectSeq(forNew, LAMBDA a : a.adjustment # 0)
       \o SelectSeq(forOld, LAMBDA a : a.adjustment # 0)


\* ------------------------------------------------------------------- state
\* variant    which version of the sales router is mounted
\* stock      Product.stock of every product
\* sales      the Sale collection: id -> document, NoSale when absent
\* customers  the Customer collection keyed by the unique phone; a customer's
\*            _id is identified with its phone
\* nextId     the next Sale _id
\* reqCount   requests received so far; it also serves as the clock
\* req        per slot, the request being served: its number (no), its
\*            inputs, the position of its handler (pc), the handler's local
\*            variables and the net stock movement it has caused (moved)
\* released   per sale id, how many times a void or delete handler has begun
\*            returning that sale's stock (history)
ZeroMove == [p \in Products |-> 0]

Idle ==
  [pc |-> "idle", op |-> "none", res |-> "none", no |-> 0, role |-> NoRole,
   id |-> 0,
   items |-> <<>>, phone |-> "ph1", type |-> NoType, reason |-> TRUE,
   amount |-> 0, snap |-> NoSale, adj |-> <<>>, i |-> 0, cust |-> NoCust,
   custId |-> NoId, now |-> Null, agg |-> NoCust, moved |-> ZeroMove]

\* ---- the expense router's state (src/routes/expenses.js, lines 1-1321)
ExpIds == 1..MaxExp
Users == {"ua", "um", "uc", "ud"}
NoUser == "nobody"
NoExp == [none |-> TRUE]

ExpIdle ==
  [pc |-> "idle", op |-> "none", res |-> "none", no |-> 0, user |-> NoUser,
   id |-> 0, reason |-> "", amount |-> 0, snap |-> NoExp]

\* ---- the entries router's state
EntryIds == 1..MaxEntries
NoEntry == [none |-> TRUE]
Undefined == "undefined"     \* a field the request body does not carry

EntIdle ==
  [pc |-> "idle", op |-> "none", res |-> "none", no |-> 0, user |-> NoUser,
   id |-> 0, amount |-> 0, source |-> "", description |-> Undefined,
   reason |-> "", changes |-> {}]

\* ---- the list endpoints' state: no request has been answered yet
NoQuery == [none |-> TRUE]
NoClock == [none |-> TRUE]
NoAnswer == [kind |-> "none"]

\* the collections and the request slots before the first request
InitLedger ==
  /\ variant \in Variants
  /\ stock = [p \in Products |-> InitStock]
  /\ sales = [id \in SaleIds |-> NoSale]
  /\ customers = [ph \in Phones |-> NoCust]
  /\ nextId = 1
  /\ reqCount = 0
  /\ req = [s \in Slots |-> Idle]
  /\ released = [id \in SaleIds |-> 0]
  /\ expenses = [id \in ExpIds |-> NoExp]
  /\ ereq = [s \in Slots |-> ExpIdle]
  /\ nextExp = 1
  /\ expCount = 0
  /\ entries = [id \in EntryIds |-> NoEntry]
  /\ nreq = [s \in Slots |-> EntIdle]
  /\ nextEntry = 1
  /\ entCount = 0

Init ==
  /\ InitLedger
  /\ query = NoQuery
  /\ clock = NoClock
  /\ answer = NoAnswer

Free(s) == req[s].pc \in {"idle", "done"}
Quiescent == \A s \in Slots : Free(s)

\* the response is sent: the handler's locals are gone; the operation, the
\* sale id, the outcome and the net stock movement of the request stay
\* visible until the next request arrives
Finish(r, res) ==
  [r EXCEPT !.pc = "done", !.res = res, !.snap = NoSale, !.adj = <<>>,
            !.i = 0, !.cust = NoCust, !.custId = NoId, !.now = Null,
            !.agg = NoCust, !.role = NoRole, !.phone = "ph1",
            !.type = NoType, !.reason = TRUE, !.amount = 0, !.items = <<>>]

\* the answer to a create is judged against the items it asked for
FinishCreate(r, res) == [Finish(r, res) EXCEPT !.items = r.items]

Move(r, p, d) == [r EXCEPT !.moved = [@ EXCEPT ![p] = @ + d]]

Before(t, s) == t = "s1" /\ s = "s2"

\* a request is admitted into the lowest free slot; when requests run one at
\* a time (seq) only once every earlier one has been answered
Admit(s, seq) ==
  /\ Free(s)
  /\ \A t \in Slots : Before(t, s) => ~Free(t)
  /\ IF seq THEN Quiescent /\ reqCount < MaxSeqReq ELSE reqCount < MaxReq

\* the request is received and its handler runs up to and including its
\* first database read, which leaves the slot as r; the answers given
\* before it arrived are no longer looked at
Begin(s, r) ==
  /\ req' = [t \in Slots |-> IF t = s THEN [r EXCEPT !.no = reqCount + 1]
                             ELSE IF req[t].pc = "done" THEN Idle ELSE req[t]]
  /\ reqCount' = reqCount + 1
  /\ UNCHANGED <<expVars, tfVars, entVars, variant, stock, sales, customers, nextId, released>>

Known == 1..(nextId - 1)      \* ids a client can have learnt

\* --------------------------------------------- recalculateCustomerStats
\* a selection that keeps the voided and corrected sales of the customer
ValidSalesAll(cid) ==
  {id \in SaleIds : sales[id] # NoSale /\ sales[id].customerId = cid}

ValidSales(cid) ==
  {id \in SaleIds :
     /\ sales[id] # NoSale
     /\ sales[id].customerId = cid
     /\ sales[id].status \in {"completed", "pending"}
     /\ sales[id].status # "voided" /\ sales[id].status # "corrected"
     /\ (variant # "sales_js" => sales[id].type # "expense")}

\* a fold that stamps lastPurchaseDate with the time of the recomputation
FoldStamped(S) ==
  [totalPurchases |-> Cardinality(S),
   totalSpent |-> SumSet(S, [id \in S |-> sales[id].total]),
   firstPurchaseDate |-> IF S = {} THEN Null
                         ELSE MinOf({sales[id].createdAt : id \in S}),
   lastPurchaseDate |-> reqCount]

\* a fold that resets the counters but not the dates when no sale is left
FoldKeepDates(S) ==
  [totalPurchases |-> Cardinality(S),
   totalSpent |-> SumSet(S, [id \in S |-> sales[id].total]),
   firstPurchaseDate |-> MinOf({sales[id].createdAt : id \in S} \cup {reqCount}),
   lastPurchaseDate |-> MaxOf({sales[id].createdAt : id \in S} \cup {Null})]

Fold(S) ==
  IF S = {}
  THEN [totalPurchases |-> 0, totalSpent |-> 0,
        firstPurchaseDate |-> Null, lastPurchaseDate |-> Null]
  ELSE [totalPurchases |-> Cardinality(S),
        totalSpent |-> SumSet(S, [id \in S |-> sales[id].total]),
        firstPurchaseDate |-> MinOf({sales[id].createdAt : id \in S}),
        lastPurchaseDate |-> MaxOf({sales[id].createdAt : id \in S})]

\* Sale.find({customerId, status in [completed, pending]}) and the fold
RecalcRead(s) ==
  /\ req[s].pc = "recalc_read"
  /\ req' = [req EXCEPT ![s] =
               [@ EXCEPT !.pc = "recalc_write",
                         !.agg = Fold(ValidSales(req[s].custId))]]
  /\ UNCHANGED <<expVars, tfVars, entVars, variant, stock, sales, customers, nextId, reqCount, released>>

\* Customer.findByIdAndUpdate(customerId, {the four fields})
RecalcWrite(s) ==
  /\ req[s].pc = "recalc_write"
  /\ LET r == req[s] IN
     /\ customers' =
          IF r.custId # NoId /\ customers[r.custId] # NoCust
          THEN [customers EXCEPT ![r.custId] = r.agg]
          ELSE customers
     /\ req' = [req EXCEPT ![s] = Finish(r, "ok")]
  /\ UNCHANGED <<expVars, tfVars, entVars, variant, stock, sales, nextId, reqCount, released>>


\* ------------------------------------------------------- POST /  (create)
\* the request arrives; customer name and phone are present and the items
\* list is a non-empty array.  sales.js ignores `type`.
\* "gift" stands for any value outside the enum of the schema's type field.
CreateTypes(seq) ==
  IF variant = "sales_js" THEN {NoType}
  ELSE IF seq THEN {NoType, "reservation", "gift"}
  ELSE {NoType, "reservation"}

\* saleSchema.type: enum ["sale", "reservation", "expense"]
TypeValid(t) == t \in {"sale", "reservation", "expense"}

\* Runs in which requests interleave draw their inputs from the narrower
\* sets: well-formed items of which the first names p1, an edit that keeps
\* the customer, and the roles admin and cashier.  Runs in which requests
\* run one at a time draw from the full sets.
ItemsOf(seq) ==
  IF seq THEN ItemLists
  ELSE {its \in ItemLists : /\ \A i \in 1..Len(its) : ~ItemInvalid(its[i])
                            /\ its[1].productId = "p1"}
RolesOf(seq) == IF seq THEN Roles ELSE {"admin", "cashier"}

\* one turn of the validation loop: the item's fields, then
\* Product.findById(productId) and the check product.stock < quantity
CreateCheckItem(r) ==
  LET it == r.items[r.i] IN
  IF ItemInvalid(it) THEN FinishCreate(r, "validation")
  ELSE IF stock[it.productId] < it.quantity THEN FinishCreate(r, "insufficient")
  ELSE IF r.i < Len(r.items) THEN [r EXCEPT !.i = r.i + 1]
  ELSE [r EXCEPT !.pc = "c_cust_find", !.i = 0]

Creating == {t \in Slots : ~Free(t) /\ req[t].op = "create"}

StartCreate(s, seq) ==
  /\ Admit(s, seq)
  /\ nextId + Cardinality(Creating) <= MaxSales
  /\ \E its \in ItemsOf(seq), ph \in BuyerPhones, ty \in CreateTypes(seq) :
       Begin(s, CreateCheckItem(
                  [Idle EXCEPT !.pc = "c_check", !.op = "create", !.items = its,
                               !.phone = ph, !.type = ty, !.i = 1]))

CreateCheck(s) ==
  /\ req[s].pc = "c_check"
  /\ req' = [req EXCEPT ![s] = CreateCheckItem(req[s])]
  /\ UNCHANGED <<expVars, tfVars, entVars, variant, stock, sales, customers, nextId, reqCount, released>>

\* updateCustomerData: const now = new Date(); Customer.findOne({ phone })
CreateCustFind(s) ==
  /\ req[s].pc = "c_cust_find"
  /\ req' = [req EXCEPT ![s] =
               [@ EXCEPT !.pc = "c_cust_save", !.cust = customers[req[s].phone],
                         !.now = reqCount]]
  /\ UNCHANGED <<expVars, tfVars, entVars, variant, stock, sales, customers, nextId, reqCount, released>>

\* updateCustomerData: customer.save().  A found document is written back
\* with the counters computed from the values read; a new document is
\* inserted unless the unique index on phone refuses it, and then the catch
\* block returns null as the customer id.
CreateCustSave(s) ==
  /\ req[s].pc = "c_cust_save"
  /\ LET r     == req[s]
         total == Subtotal(r.items)
         dup   == r.cust = NoCust /\ customers[r.phone] # NoCust IN
     /\ customers' =
          IF r.cust # NoCust
          THEN [customers EXCEPT ![r.phone] =
                  [@ EXCEPT !.totalPurchases = r.cust.totalPurchases + 1,
                            !.totalSpent = r.cust.totalSpent + total,
                            !.lastPurchaseDate = r.now]]
          ELSE IF dup THEN customers
          ELSE [customers EXCEPT ![r.phone] =
                  [totalPurchases |-> 1, totalSpent |-> total,
                   firstPurchaseDate |-> r.now, lastPurchaseDate |-> r.now]]
     /\ req' = [req EXCEPT ![s] =
                  [r EXCEPT !.pc = "c_reserve", !.i = 1, !.cust = NoCust,
                            !.custId = IF dup THEN NoId ELSE r.phone]]
  /\ UNCHANGED <<expVars, tfVars, entVars, variant, stock, sales, nextId, reqCount, released>>

\* a decrement whose filter does not look at the stock
ReserveUnguarded(st, q) == TRUE

\* a decrement whose filter asks for more stock than the quantity
ReserveStrict(st, q) == st > q

\* the reserve primitive: Product.findOneAndUpdate(
\*   { _id, stock: { $gte: quantity } }, { $inc: { stock: -quantity } })
ReserveOK(st, q) == st >= q

\* a reservation loop that starts over after a refused decrement
CreateReserveRetry(s) ==
  /\ req[s].pc = "c_reserve"
  /\ LET r  == req[s]
         it == r.items[r.i] IN
     IF ReserveOK(stock[it.productId], it.quantity)
     THEN /\ stock' = [stock EXCEPT ![it.productId] = @ - it.quantity]
          /\ req' = [req EXCEPT ![s] =
               IF r.i < Len(r.items)
               THEN [Move(r, it.productId, -it.quantity) EXCEPT !.i = r.i + 1]
               ELSE [Move(r, it.productId, -it.quantity) EXCEPT
                       !.pc = "c_save", !.i = 0]]
     ELSE /\ stock' = stock
          /\ req' = [req EXCEPT ![s] = [r EXCEPT !.i = 1]]
  /\ UNCHANGED <<expVars, tfVars, entVars, variant, sales, customers, nextId, reqCount, released>>

\* one turn of the reservation loop; a refused decrement answers 409 at once
CreateReserve(s) ==
  /\ req[s].pc = "c_reserve"
  /\ LET r  == req[s]
         it == r.items[r.i] IN
     IF ReserveOK(stock[it.productId], it.quantity)
     THEN /\ stock' = [stock EXCEPT ![it.productId] = @ - it.quantity]
          /\ req' = [req EXCEPT ![s] =
               IF r.i < Len(r.items)
               THEN [Move(r, it.productId, -it.quantity) EXCEPT !.i = r.i + 1]
               ELSE [Move(r, it.productId, -it.quantity) EXCEPT
                       !.pc = "c_save", !.i = 0]]
     ELSE /\ stock' = stock
          /\ req' = [req EXCEPT ![s] = FinishCreate(r, "conflict")]
  /\ UNCHANGED <<expVars, tfVars, entVars, variant, sales, customers, nextId, reqCount, released>>

\* a create that stores every record as completed
StatusCompleted(ty) == "completed"

\* status: type === "reservation" ? "pending" : "completed"
\* (sales.js, which never sees a type, always stores "completed")
StatusOf(ty) == IF ty = "reservation" THEN "pending" ELSE "completed"

\* new Sale(saleData).save(): the schema validators run first, and a type
\* outside the enum raises a ValidationError that the catch block answers
\* with 400; nothing is saved
CreateSave(s) ==
  /\ req[s].pc = "c_save"
  /\ LET r == req[s]
         ty == IF r.type = NoType THEN "sale" ELSE r.type IN
     IF TypeValid(ty)
     THEN /\ sales' = [sales EXCEPT ![nextId] =
               [type |-> ty,
                status |-> StatusOf(r.type),
                items |-> r.items,
                subtotal |-> Subtotal(r.items),
                total |-> Subtotal(r.items),
                customer |-> r.phone,
                customerId |-> r.custId,
                createdAt |-> reqCount,
                completedAt |-> Null,
                editHistory |-> <<>>]]
          /\ req' = [req EXCEPT ![s] = [FinishCreate(r, "ok") EXCEPT !.id = nextId]]
          /\ nextId' = nextId + 1
     ELSE /\ sales' = sales
          /\ req' = [req EXCEPT ![s] = FinishCreate(r, "validation")]
          /\ nextId' = nextId
  /\ UNCHANGED <<expVars, tfVars, entVars, variant, stock, customers, reqCount, released>>


\* ------------------------------------------------------- PUT /:id  (edit)
EditTypes(seq) == IF variant = "sales_js" THEN {NoType}
                  ELSE IF seq THEN {NoType, "reservation", "expense"}
                  ELSE {NoType, "expense"}
EditPhones(seq) == IF seq THEN Phones ELSE BuyerPhones

\* an edit handler without the guard on the status
EditUnguarded(o) == FALSE

\* if (originalSale.status === "voided" || originalSale.status === "corrected")
EditGuard(o) == o.status \in {"voided", "corrected"}

\* the handler up to its first write: the role check of sales.js,
\* Sale.findById, the reservation restrictions, the voided/corrected guard,
\* the expense branch's field checks (in part_002 that branch reads
\* undeclared variables and throws unless `reason` is empty), the item
\* validation loop and the computation of stockAdjustments
EditFind(r) ==
  LET o == sales[r.id]
      adj == stockAdjustments(o.items, r.items)
      k == [r EXCEPT !.role = NoRole] IN
  IF variant = "sales_js" /\ r.role # "admin" THEN Finish(r, "forbidden")
  ELSE IF o = NoSale THEN Finish(r, "notfound")
  ELSE IF variant # "sales_js" /\ o.type = "reservation"
          /\ o.status = "completed" /\ r.role # "admin"
       THEN Finish(r, "forbidden")
  ELSE IF variant # "sales_js" /\ o.type = "reservation"
          /\ o.status = "pending" /\ r.role \notin {"admin", "manager"}
       THEN Finish(r, "forbidden")
  ELSE IF EditGuard(o) THEN Finish(r, "invalidstate")
  ELSE IF variant # "sales_js" /\ (o.type = "expense" \/ r.type = "expense")
       THEN IF ~r.reason THEN Finish(r, "validation")
            ELSE IF variant = "part_002" THEN Finish(r, "error500")
            ELSE IF r.amount <= 0 THEN Finish(r, "validation")
            ELSE [k EXCEPT !.pc = "e_expense", !.snap = o]
  ELSE IF \E i \in 1..Len(r.items) : ItemInvalid(r.items[i])
       THEN Finish(r, "validation")
  ELSE [k EXCEPT !.pc = IF adj = <<>> THEN "e_update" ELSE "e_apply",
                 !.i = IF adj = <<>> THEN 0 ELSE 1,
                 !.snap = o, !.adj = adj]

AnyItems == <<[productId |-> "p1", quantity |-> 1, price |-> 1]>>

\* reason and amount are read only by the expense branch, which in turn
\* reads neither items nor customer; the sale branch
\* defaults an absent reason to "Sale correction"
StartEdit(s, seq) ==
  /\ Admit(s, seq)
  /\ \E id \in Known, its \in ItemsOf(seq), ph \in EditPhones(seq),
        ty \in EditTypes(seq), ro \in RolesOf(seq), rs \in BOOLEAN,
        am \in 0..MaxAmount :
       /\ ty # "expense" => (rs /\ am = 0)
       /\ (ty = "expense" /\ ~seq) => (rs /\ am > 0)
       /\ ty = "expense" => (its = AnyItems /\ ph = "ph1")
       /\ Begin(s, EditFind(
                     [Idle EXCEPT !.pc = "e_find", !.op = "edit", !.id = id,
                                  !.items = its, !.phone = ph, !.type = ty,
                                  !.role = ro, !.reason = rs, !.amount = am]))


\* an update that sets the array to the new entry instead of pushing it
PushReplace(h, e) == <<e>>

\* $push: { editHistory: {editedBy, editedAt, changes, reason} } appends the
\* entry to the stored array
Push(h, e) == Append(h, e)

\* the expense branch's Sale.findByIdAndUpdate: subtotal and total become
\* the amount, one editHistory entry is pushed, items and stock are untouched
EditExpense(s) ==
  /\ req[s].pc = "e_expense"
  /\ LET r == req[s]
         o == r.snap
         changes == {"reason", "recipientName", "recipientPhone"}
                      \cup (IF o.total # r.amount THEN {"total"} ELSE {}) IN
     /\ sales' =
          IF sales[r.id] = NoSale THEN sales
          ELSE [sales EXCEPT ![r.id] =
                  [@ EXCEPT !.subtotal = r.amount, !.total = r.amount,
                            !.editHistory =
                               Push(@, [changes |-> changes, reason |-> "given"])]]
     /\ req' = [req EXCEPT ![s] = Finish(r, "ok")]
  /\ UNCHANGED <<expVars, tfVars, entVars, variant, stock, customers, nextId, reqCount, released>>

\* one turn of the apply loop: Product.findByIdAndUpdate(productId,
\* { $inc: { stock: adjustment } }, { new: true }), then the test
\* updatedProduct.stock < 0 on the value written
EditApply(s) ==
  /\ req[s].pc = "e_apply"
  /\ LET r  == req[s]
         a  == r.adj[r.i]
         ns == stock[a.productId] + a.adjustment
         m  == Move(r, a.productId, a.adjustment) IN
     /\ stock' = [stock EXCEPT ![a.productId] = ns]
     /\ req' = [req EXCEPT ![s] =
          IF ns < 0 THEN [m EXCEPT !.pc = "e_rollback", !.i = 1]
          ELSE IF r.i < Len(r.adj) THEN [m EXCEPT !.i = r.i + 1]
          ELSE [m EXCEPT !.pc = "e_update", !.i = 0]]
  /\ UNCHANGED <<expVars, tfVars, entVars, variant, sales, customers, nextId, reqCount, released>>

\* one turn of the rollback loop, which runs over every entry of
\* stockAdjustments: { $inc: { stock: -adjustment } }; after the last, 400
EditRollback(s) ==
  /\ req[s].pc = "e_rollback"
  /\ LET r == req[s]
         a == r.adj[r.i]
         m == Move(r, a.productId, -a.adjustment) IN
     /\ stock' = [stock EXCEPT ![a.productId] = @ - a.adjustment]
     /\ req' = [req EXCEPT ![s] =
          IF r.i < Len(r.adj) THEN [m EXCEPT !.i = r.i + 1]
          ELSE Finish(m, "insufficient")]
  /\ UNCHANGED <<expVars, tfVars, entVars, variant, sales, customers, nextId, reqCount, released>>

\* the fields the edit records as changed, compared against the document
\* read at the start of the handler
EditChanges(o, r) ==
  (IF o.customer # r.phone THEN {"customer"} ELSE {})
    \cup (IF o.total # Subtotal(r.items) THEN {"total"} ELSE {})
    \cup (IF variant # "sales_js" /\ o.type # r.type THEN {"type"} ELSE {})

\* Sale.findByIdAndUpdate(id, {customer, items, subtotal, total, type, ...,
\* $push: {editHistory}}); a document deleted meanwhile yields null
EditUpdate(s) ==
  /\ req[s].pc = "e_update"
  /\ LET r == req[s]
         o == r.snap
         changes == EditChanges(o, r) IN
     /\ sales' =
          IF sales[r.id] = NoSale THEN sales
          ELSE [sales EXCEPT ![r.id] =
                  [@ EXCEPT !.customer = r.phone, !.items = r.items,
                            !.subtotal = Subtotal(r.items),
                            !.total = Subtotal(r.items),
                            !.type = IF variant = "sales_js" THEN @
                                     ELSE IF r.type # NoType THEN r.type
                                     ELSE o.type,
                            !.editHistory =
                               Push(@, [changes |-> changes, reason |-> "given"])]]
     /\ req' = [req EXCEPT ![s] =
          IF "customer" \in changes \/ "total" \in changes
          THEN [r EXCEPT !.pc = "recalc_read", !.custId = o.customerId,
                         !.snap = NoSale, !.adj = <<>>]
          ELSE Finish(r, "ok")]
  /\ UNCHANGED <<expVars, tfVars, entVars, variant, stock, customers, nextId, reqCount, released>>

\* ------------------------------------ PATCH /:id/complete and /:id/pending
\* a complete handler without the guard on the status
CompleteUnguarded(o) == FALSE

\* if (sale.status === "completed")
CompleteGuard(o) == o.status = "completed"

\* Sale.findById and the guards of the complete handler
CompleteFind(r) ==
  LET o == sales[r.id] IN
  IF o = NoSale THEN Finish(r, "notfound")
  ELSE IF o.type # "reservation" THEN Finish(r, "validation")
  ELSE IF CompleteGuard(o) THEN Finish(r, "invalidstate")
  ELSE [r EXCEPT !.pc = "k_update", !.role = NoRole]

StartComplete(s, seq) ==
  /\ Admit(s, seq)
  /\ variant # "sales_js"
  /\ \E id \in Known, ro \in RolesOf(seq) :
       Begin(s, CompleteFind([Idle EXCEPT !.pc = "k_find", !.op = "complete",
                                          !.id = id, !.role = ro]))

\* Sale.findByIdAndUpdate(id, {status: "completed", completedAt, completedBy});
\* completedBy is set and cleared together with completedAt
CompleteUpdate(s) ==
  /\ req[s].pc = "k_update"
  /\ LET r == req[s] IN
     /\ sales' =
          IF sales[r.id] = NoSale THEN sales
          ELSE [sales EXCEPT ![r.id] =
                  [@ EXCEPT !.status = "completed", !.completedAt = reqCount]]
     /\ req' = [req EXCEPT ![s] = Finish(r, "ok")]
  /\ UNCHANGED <<expVars, tfVars, entVars, variant, stock, customers, nextId, reqCount, released>>

\* a reopen handler that does not look at the role
ReopenAnyone(o, role) == TRUE

\* if (sale.status === "completed" && req.user.role !== "admin") -> 403
ReopenAllowed(o, role) == ~(o.status = "completed" /\ role # "admin")

\* Sale.findById and the guards of the reopen handler
PendingFind(r) ==
  LET o == sales[r.id] IN
  IF o = NoSale THEN Finish(r, "notfound")
  ELSE IF ~ReopenAllowed(o, r.role) THEN Finish(r, "forbidden")
  ELSE IF o.type # "reservation" THEN Finish(r, "validation")
  ELSE [r EXCEPT !.pc = "r_update"]

StartPending(s, seq) ==
  /\ Admit(s, seq)
  /\ variant # "sales_js"
  /\ \E id \in Known, ro \in RolesOf(seq) :
       Begin(s, PendingFind([Idle EXCEPT !.pc = "r_find", !.op = "pending",
                                         !.id = id, !.role = ro]))

\* Sale.findByIdAndUpdate(id, {status: "pending", completedAt: null, ...})
PendingUpdate(s) ==
  /\ req[s].pc = "r_update"
  /\ LET r == req[s] IN
     /\ sales' =
          IF sales[r.id] = NoSale THEN sales
          ELSE [sales EXCEPT ![r.id] =
                  [@ EXCEPT !.status = "pending", !.completedAt = Null]]
     /\ req' = [req EXCEPT ![s] = Finish(r, "ok")]
  /\ UNCHANGED <<expVars, tfVars, entVars, variant, stock, customers, nextId, reqCount, released>>


\* ------------------------------------------------ PATCH /:id/void  (void)
\* void and delete recalculate when the document read carries a customerId
\* and, in the later versions, its type is sale or reservation
RecalcAfter(o) ==
  /\ o.customerId # NoId
  /\ (variant # "sales_js" => o.type \in {"sale", "reservation"})

\* who returns stock: sales.js loops over sale.items unconditionally, the
\* later versions only for a sale or reservation that has items
ReturnsStock(o) ==
  /\ Len(o.items) > 0
  /\ (variant # "sales_js" => o.type \in {"sale", "reservation"})

\* a void handler without the guard on status "voided"
VoidUnguarded(o) == FALSE

\* the guard on status "voided" that follows Sale.findById
VoidGuard(o) == o.status = "voided"

VoidFind(r) ==
  LET o == sales[r.id]
      k == [r EXCEPT !.role = NoRole] IN
  IF r.role # "admin" THEN Finish(r, "forbidden")
  ELSE IF o = NoSale THEN Finish(r, "notfound")
  ELSE IF VoidGuard(o) THEN Finish(r, "invalidstate")
  ELSE IF ReturnsStock(o) THEN [k EXCEPT !.pc = "v_release", !.i = 1, !.snap = o]
  ELSE [k EXCEPT !.pc = "v_update", !.snap = o]

StartVoid(s, seq) ==
  /\ Admit(s, seq)
  /\ \E id \in Known, ro \in RolesOf(seq) :
       Begin(s, VoidFind([Idle EXCEPT !.pc = "v_find", !.op = "void",
                                      !.id = id, !.role = ro]))

\* the release primitive: Product.findByIdAndUpdate(productId,
\*   { $inc: { stock: quantity } })
Release(st, q) == st + q

\* one turn of the loop over the items of the document read by findById
VoidRelease(s) ==
  /\ req[s].pc = "v_release"
  /\ LET r  == req[s]
         it == r.snap.items[r.i]
         m  == Move(r, it.productId, it.quantity) IN
     /\ stock' = [stock EXCEPT ![it.productId] = Release(@, it.quantity)]
     /\ released' = IF r.i = 1 THEN [released EXCEPT ![r.id] = @ + 1] ELSE released
     /\ req' = [req EXCEPT ![s] =
          IF r.i < Len(r.snap.items) THEN [m EXCEPT !.i = r.i + 1]
          ELSE [m EXCEPT !.pc = "v_update", !.i = 0]]
  /\ UNCHANGED <<expVars, tfVars, entVars, variant, sales, customers, nextId, reqCount>>

\* Sale.findByIdAndUpdate(id, {status: "voided", ..., $push: {editHistory}})
VoidUpdate(s) ==
  /\ req[s].pc = "v_update"
  /\ LET r == req[s]
         o == r.snap IN
     /\ sales' =
          IF sales[r.id] = NoSale THEN sales
          ELSE [sales EXCEPT ![r.id] =
                  [@ EXCEPT !.status = "voided",
                            !.editHistory =
                               Push(@, [changes |-> {"status"}, reason |-> "given"])]]
     /\ req' = [req EXCEPT ![s] =
          IF RecalcAfter(o)
          THEN [r EXCEPT !.pc = "recalc_read", !.custId = o.customerId,
                         !.snap = NoSale]
          ELSE Finish(r, "ok")]
  /\ UNCHANGED <<expVars, tfVars, entVars, variant, stock, customers, nextId, reqCount, released>>

\* ---------------------------------------------------- DELETE /:id (delete)
\* does the delete handler return the stock of the document it read:
\* never in sales.js; in the later versions unless the status is "voided"
DeleteReturnsStock(o) ==
  /\ variant # "sales_js"
  /\ o.type \in {"reservation", "sale"}
  /\ Len(o.items) > 0
  /\ o.status # "voided"

DeleteFind(r) ==
  LET o == sales[r.id]
      k == [r EXCEPT !.role = NoRole] IN
  IF o = NoSale THEN Finish(r, "notfound")
  ELSE IF variant # "sales_js" /\ o.type = "reservation" /\ r.role # "admin"
       THEN Finish(r, "forbidden")
  ELSE IF DeleteReturnsStock(o)
       THEN [k EXCEPT !.pc = "d_release", !.i = 1, !.snap = o]
  ELSE [k EXCEPT !.pc = "d_remove", !.snap = o]

StartDelete(s, seq) ==
  /\ Admit(s, seq)
  /\ \E id \in Known, ro \in RolesOf(seq) :
       Begin(s, DeleteFind([Idle EXCEPT !.pc = "d_find", !.op = "delete",
                                        !.id = id, !.role = ro]))

DeleteRelease(s) ==
  /\ req[s].pc = "d_release"
  /\ LET r  == req[s]
         it == r.snap.items[r.i]
         m  == Move(r, it.productId, it.quantity) IN
     /\ stock' = [stock EXCEPT ![it.productId] = Release(@, it.quantity)]
     /\ released' = IF r.i = 1 THEN [released EXCEPT ![r.id] = @ + 1] ELSE released
     /\ req' = [req EXCEPT ![s] =
          IF r.i < Len(r.snap.items) THEN [m EXCEPT !.i = r.i + 1]
          ELSE [m EXCEPT !.pc = "d_remove", !.i = 0]]
  /\ UNCHANGED <<expVars, tfVars, entVars, variant, sales, customers, nextId, reqCount>>

\* Sale.findByIdAndDelete(id), then the recalculation when the document
\* carried a customerId
DeleteRemove(s) ==
  /\ req[s].pc = "d_remove"
  /\ LET r == req[s]
         o == r.snap IN
     /\ sales' = [sales EXCEPT ![r.id] = NoSale]
     /\ req' = [req EXCEPT ![s] =
          IF RecalcAfter(o)
          THEN [r EXCEPT !.pc = "recalc_read", !.custId = o.customerId,
                         !.snap = NoSale]
          ELSE Finish(r, "ok")]
  /\ UNCHANGED <<expVars, tfVars, entVars, variant, stock, customers, nextId, reqCount, released>>

\* ----------------------- POST /api/customers/:id/recalculate (customers.js)
\* Sale.find({customerId, status in [completed, pending]}) and the filter on
\* voided and corrected; unlike the helper of the later sales routers it
\* does not look at the type
CustomerValidSales(cid) ==
  {id \in SaleIds :
     /\ sales[id] # NoSale
     /\ sales[id].customerId = cid
     /\ sales[id].status \in {"completed", "pending"}
     /\ sales[id].status # "voided" /\ sales[id].status # "corrected"}

RecalcIds(seq) == IF seq THEN Phones ELSE BuyerPhones

\* the request arrives and the handler reads and folds the valid sales
StartRecalculate(s, seq) ==
  /\ Admit(s, seq)
  /\ \E c \in RecalcIds(seq) :
       Begin(s, [Idle EXCEPT !.pc = "q_write", !.op = "recalculate",
                             !.custId = c,
                             !.agg = Fold(CustomerValidSales(c))])

\* Customer.findByIdAndUpdate(customerId, {the four fields}, {new: true});
\* the response carries the updated document, null when there is none
\* (404 when there is none although valid sales were found)
Recalculate(s) ==
  /\ req[s].pc = "q_write"
  /\ LET r == req[s] IN
     /\ customers' = IF customers[r.custId] = NoCust THEN customers
                     ELSE [customers EXCEPT ![r.custId] = r.agg]
     /\ req' = [req EXCEPT ![s] =
          IF customers[r.custId] = NoCust
          THEN Finish(r, IF r.agg.totalPurchases = 0 THEN "ok" ELSE "notfound")
          ELSE [Finish(r, "ok") EXCEPT !.custId = r.custId, !.agg = r.agg]]
  /\ UNCHANGED <<expVars, tfVars, entVars, variant, stock, sales, nextId, reqCount, released>>

\* a run that consists of creates only: the requests interleave, carry any
\* well-formed items list and no type
StartCreateAny(s) ==
  /\ Admit(s, FALSE)
  /\ nextId + Cardinality(Creating) <= MaxCreates
  /\ \E its \in {l \in ItemLists : \A i \in 1..Len(l) : ~ItemInvalid(l[i])},
        ph \in BuyerPhones :
       Begin(s, CreateCheckItem(
                  [Idle EXCEPT !.pc = "c_check", !.op = "create", !.items = its,
                               !.phone = ph, !.type = NoType, !.i = 1]))

CreateStep(s) ==
  \/ CreateCheck(s) \/ CreateCustFind(s) \/ CreateCustSave(s)
  \/ CreateReserve(s) \/ CreateSave(s)

NextCreate == \E s \in Slots : StartCreateAny(s) \/ CreateStep(s)
SpecCreate == Init /\ [][NextCreate]_vars

\* ----------------------------------------------------------- specifications
Step(s) ==
  \/ CreateCheck(s) \/ CreateCustFind(s) \/ CreateCustSave(s)
  \/ CreateReserve(s) \/ CreateSave(s)
  \/ EditExpense(s) \/ EditApply(s) \/ EditRollback(s)
  \/ EditUpdate(s)
  \/ CompleteUpdate(s) \/ PendingUpdate(s)
  \/ VoidRelease(s) \/ VoidUpdate(s)
  \/ DeleteRelease(s) \/ DeleteRemove(s)
  \/ RecalcRead(s) \/ RecalcWrite(s)
  \/ Recalculate(s)

Start(s, seq) ==
  \/ StartCreate(s, seq) \/ StartEdit(s, seq) \/ StartComplete(s, seq)
  \/ StartPending(s, seq) \/ StartVoid(s, seq) \/ StartDelete(s, seq)
  \/ StartRecalculate(s, seq)

\* requests interleave at every database step
Next == \E s \in Slots : Start(s, FALSE) \/ Step(s)
Spec == Init /\ [][Next]_vars

\* requests run one at a time
NextSeq == \E s \in Slots : Start(s, TRUE) \/ Step(s)
SpecSeq == Init /\ [][NextSeq]_vars


\* ======================================================== the expense router
\* the role stored with each user document
RoleOf(u) == IF u = "ua" THEN "admin"
             ELSE IF u = "um" THEN "manager" ELSE "cashier"

\* req.user.canValidate = user.role === 'admin' || user.role === 'manager'
canValidate(u) == RoleOf(u) = "admin" \/ RoleOf(u) = "manager"

\* req.user.isAdmin = user.role === 'admin'
isAdmin(u) == RoleOf(u) = "admin"

\* user.role === 'admin' || user.isAdmin === true || user.canValidate === true
isAdminUser(u) == RoleOf(u) = "admin" \/ isAdmin(u) \/ canValidate(u)

\* String(input || "").trim(): the empty and the blank text become ""
Reasons == {"", "  ", "why"}
sanitizeInput(x) == IF x = "  " THEN "" ELSE x

ExpFree(s) == ereq[s].pc \in {"idle", "done"}

\* the response is sent; the operation, the actor, the expense id and the
\* outcome stay visible until the next request arrives
ExpFinish(r, res) ==
  [r EXCEPT !.pc = "done", !.res = res, !.snap = NoExp, !.reason = "",
            !.amount = 0]

\* a request is admitted into the lowest free slot; when requests run one
\* at a time (seq) only once every earlier one has been answered
ExpAdmit(s, seq) ==
  /\ ExpFree(s)
  /\ \A t \in Slots : Before(t, s) => ~ExpFree(t)
  /\ expCount < MaxExpReq
  /\ seq => \A t \in Slots : ExpFree(t)

\* the request is received and its handler runs up to and including its
\* first database call, which leaves the slot as r
ExpBegin(s, r) ==
  /\ ereq' = [t \in Slots |-> IF t = s THEN [r EXCEPT !.no = expCount + 1]
                              ELSE IF ereq[t].pc = "done" THEN ExpIdle
                              ELSE ereq[t]]
  /\ expCount' = expCount + 1

ExpKnown == 1..(nextExp - 1)

\* ------------------------------------------------------ POST / (create)
\* the field checks, then new Expense({..., recordedBy: recordedBy ||
\* req.user.id, status: "pending"}).save()
ExpCreate(s, seq) ==
  /\ ExpAdmit(s, seq)
  /\ \E u \in Users, am \in 0..MaxAmount, rb \in {NoUser, "uc"} :
       LET r == [ExpIdle EXCEPT !.op = "create", !.user = u] IN
       IF am <= 0
       THEN /\ ExpBegin(s, ExpFinish(r, "validation"))
            /\ UNCHANGED <<expenses, nextExp>>
       ELSE /\ nextExp <= MaxExp
            /\ ExpBegin(s, [ExpFinish(r, "ok") EXCEPT !.id = nextExp])
            /\ expenses' = [expenses EXCEPT ![nextExp] =
                 [status |-> "pending",
                  recordedBy |-> IF rb # NoUser THEN rb ELSE u,
                  amount |-> am, validatedBy |-> NoUser, notes |-> <<>>]]
            /\ nextExp' = nextExp + 1
  /\ UNCHANGED <<variant, stock, sales, customers, nextId, reqCount, req,
                 released, tfVars, entVars>>

\* ------------------------------------------- PATCH /:id/validate (validate)
\* a validate handler that does not look at the status
ValidateAnyStatus(e) == TRUE

\* the two guards on expense.status of the validate handler
ValidateGuard(e) == e.status # "validated" /\ e.status # "rejected"

\* the permission check, Expense.findById and the status guards
ValidateFind(r) ==
  LET e == expenses[r.id] IN
  IF ~canValidate(r.user) THEN ExpFinish(r, "forbidden")
  ELSE IF e = NoExp THEN ExpFinish(r, "notfound")
  ELSE IF ~ValidateGuard(e) THEN ExpFinish(r, "invalidstate")
  ELSE [r EXCEPT !.pc = "xv_update", !.snap = e]

StartValidate(s, seq) ==
  /\ ExpAdmit(s, seq)
  /\ \E u \in Users, id \in ExpKnown :
       ExpBegin(s, ValidateFind([ExpIdle EXCEPT !.op = "validate",
                                                !.user = u, !.id = id]))
  /\ UNCHANGED <<variant, stock, sales, customers, nextId, reqCount, req,
                 released, expenses, nextExp, tfVars, entVars>>

\* Expense.findByIdAndUpdate(id, {status: "validated", validatedBy,
\* validatedAt, notes}); the notes are those read by findById plus one line
ValidateUpdate(s) ==
  /\ ereq[s].pc = "xv_update"
  /\ LET r == ereq[s] IN
     /\ expenses' =
          IF expenses[r.id] = NoExp THEN expenses
          ELSE [expenses EXCEPT ![r.id] =
                  [@ EXCEPT !.status = "validated", !.validatedBy = r.user,
                            !.notes = Append(r.snap.notes,
                                             [what |-> "validated",
                                              by |-> r.user, reason |-> ""])]]
     /\ ereq' = [ereq EXCEPT ![s] = ExpFinish(r, "ok")]
  /\ UNCHANGED <<variant, stock, sales, customers, nextId, reqCount, req,
                 released, nextExp, expCount, tfVars, entVars>>

\* ----------------------------------------------- PATCH /:id/reject (reject)
\* a reject handler that accepts an absent reason
RejectAnyReason(e, reason) == e.status # "rejected" /\ e.status # "validated"

\* the guards on expense.status and the test if (!reason) on the raw text
RejectGuard(e, reason) ==
  e.status # "rejected" /\ e.status # "validated" /\ reason # ""

RejectFind(r) ==
  LET e == expenses[r.id] IN
  IF ~canValidate(r.user) THEN ExpFinish(r, "forbidden")
  ELSE IF e = NoExp THEN ExpFinish(r, "notfound")
  ELSE IF ~RejectGuard(e, r.reason)
       THEN ExpFinish(r, IF e.status = "pending" THEN "validation"
                         ELSE "invalidstate")
  ELSE [r EXCEPT !.pc = "xr_update", !.snap = e]

StartReject(s, seq) ==
  /\ ExpAdmit(s, seq)
  /\ \E u \in Users, id \in ExpKnown, rs \in Reasons :
       ExpBegin(s, RejectFind([ExpIdle EXCEPT !.op = "reject", !.user = u,
                                              !.id = id, !.reason = rs]))
  /\ UNCHANGED <<variant, stock, sales, customers, nextId, reqCount, req,
                 released, expenses, nextExp, tfVars, entVars>>

\* Expense.findByIdAndUpdate(id, {status: "rejected", validatedBy,
\* validatedAt, notes})
RejectUpdate(s) ==
  /\ ereq[s].pc = "xr_update"
  /\ LET r == ereq[s] IN
     /\ expenses' =
          IF expenses[r.id] = NoExp THEN expenses
          ELSE [expenses EXCEPT ![r.id] =
                  [@ EXCEPT !.status = "rejected", !.validatedBy = r.user,
                            !.notes = Append(r.snap.notes,
                                             [what |-> "rejected",
                                              by |-> r.user,
                                              reason |-> r.reason])]]
     /\ ereq' = [ereq EXCEPT ![s] = ExpFinish(r, "ok")]
  /\ UNCHANGED <<variant, stock, sales, customers, nextId, reqCount, req,
                 released, nextExp, expCount, tfVars, entVars>>


\* ------------------------------------------------------- PUT /:id (update)
\* the field checks, Expense.findById, the authorisation of an edit of a
\* validated or rejected expense (isAdminUser, then a non-blank
\* updateReason) and of a pending one (the recorder or isAdminUser)
ExpEditFind(r) ==
  LET e == expenses[r.id] IN
  IF r.amount <= 0 THEN ExpFinish(r, "validation")
  ELSE IF e = NoExp THEN ExpFinish(r, "notfound")
  ELSE IF e.status # "pending" /\ ~isAdminUser(r.user)
       THEN ExpFinish(r, "forbidden")
  ELSE IF e.status # "pending" /\ sanitizeInput(r.reason) = ""
       THEN ExpFinish(r, "validation")
  ELSE IF e.status = "pending" /\ e.recordedBy # r.user
          /\ ~isAdminUser(r.user)
       THEN ExpFinish(r, "forbidden")
  ELSE [r EXCEPT !.pc = "xe_update", !.snap = e]

StartExpEdit(s, seq) ==
  /\ ExpAdmit(s, seq)
  /\ \E u \in Users, id \in ExpKnown, am \in 0..MaxAmount, rs \in Reasons :
       ExpBegin(s, ExpEditFind([ExpIdle EXCEPT !.op = "edit", !.user = u,
                                               !.id = id, !.amount = am,
                                               !.reason = rs]))
  /\ UNCHANGED <<variant, stock, sales, customers, nextId, reqCount, req,
                 released, expenses, nextExp, tfVars, entVars>>

\* Expense.findByIdAndUpdate(id, updateData): the fields, the notes read by
\* findById plus one line, and validatedBy when the expense read was
\* validated; the status is not part of updateData. A document deleted
\* meanwhile yields null and updatedExpense.toObject() throws (500)
ExpEditUpdate(s) ==
  /\ ereq[s].pc = "xe_update"
  /\ LET r == ereq[s]
         e == r.snap IN
     /\ expenses' =
          IF expenses[r.id] = NoExp THEN expenses
          ELSE [expenses EXCEPT ![r.id] =
                  [@ EXCEPT !.amount = r.amount,
                            !.validatedBy =
                               IF e.status = "validated" /\ isAdminUser(r.user)
                               THEN r.user ELSE @,
                            !.notes = Append(e.notes,
                                             [what |-> "updated", by |-> r.user,
                                              reason |-> sanitizeInput(r.reason)])]]
     /\ ereq' = [ereq EXCEPT ![s] =
          ExpFinish(r, IF expenses[r.id] = NoExp THEN "error500" ELSE "ok")]
  /\ UNCHANGED <<variant, stock, sales, customers, nextId, reqCount, req,
                 released, nextExp, expCount, tfVars, entVars>>

\* ------------------------------------- DELETE /:id/admin and DELETE /:id
\* isAdminUser, then Expense.findById
AdminDeleteFind(r) ==
  LET e == expenses[r.id] IN
  IF ~isAdminUser(r.user) THEN ExpFinish(r, "forbidden")
  ELSE IF e = NoExp THEN ExpFinish(r, "notfound")
  ELSE [r EXCEPT !.pc = "xa_remove", !.snap = e]

\* Expense.findById, the guard on a status other than pending, then the
\* recorder check
ExpDeleteFind(r) ==
  LET e == expenses[r.id] IN
  IF e = NoExp THEN ExpFinish(r, "notfound")
  ELSE IF e.status # "pending" THEN ExpFinish(r, "invalidstate")
  ELSE IF e.recordedBy # r.user /\ ~isAdminUser(r.user)
       THEN ExpFinish(r, "forbidden")
  ELSE [r EXCEPT !.pc = "xd_remove", !.snap = e]

StartExpDelete(s, seq) ==
  /\ ExpAdmit(s, seq)
  /\ \E u \in Users, id \in ExpKnown, admin \in BOOLEAN :
       LET r == [ExpIdle EXCEPT !.op = IF admin THEN "admindelete"
                                       ELSE "delete",
                                !.user = u, !.id = id] IN
       ExpBegin(s, IF admin THEN AdminDeleteFind(r) ELSE ExpDeleteFind(r))
  /\ UNCHANGED <<variant, stock, sales, customers, nextId, reqCount, req,
                 released, expenses, nextExp, tfVars, entVars>>

\* Expense.findByIdAndDelete(id) of either delete route
ExpRemove(s) ==
  /\ ereq[s].pc \in {"xa_remove", "xd_remove"}
  /\ LET r == ereq[s] IN
     /\ expenses' = [expenses EXCEPT ![r.id] = NoExp]
     /\ ereq' = [ereq EXCEPT ![s] = ExpFinish(r, "ok")]
  /\ UNCHANGED <<variant, stock, sales, customers, nextId, reqCount, req,
                 released, nextExp, expCount, tfVars, entVars>>

\* --------------------------------------- the expense router's specification
ExpStart(s, seq) ==
  \/ ExpCreate(s, seq) \/ StartValidate(s, seq) \/ StartReject(s, seq)
  \/ StartExpEdit(s, seq) \/ StartExpDelete(s, seq)

ExpStep(s) ==
  \/ ValidateUpdate(s) \/ RejectUpdate(s) \/ ExpEditUpdate(s) \/ ExpRemove(s)

\* the expense router alone, under the mounted sales router, one request at
\* a time
InitExp == Init /\ variant = "sales_js"
NextExpSeq == \E s \in Slots : ExpStart(s, TRUE) \/ ExpStep(s)
SpecExpSeq == InitExp /\ [][NextExpSeq]_vars


\* ==================================================== the timeframe resolver
\* (buildTimeframeFilter and getTimeframeDescription; src/routes/entries.js
\* holds an identical copy)
\* ---- the calendar of the Date object
IsLeap(y) == (y % 4 = 0 /\ y % 100 # 0) \/ y % 400 = 0

DaysInMonth(y, m) ==
  IF m = 2 THEN (IF IsLeap(y) THEN 29 ELSE 28)
  ELSE IF m \in {4, 6, 9, 11} THEN 30 ELSE 31

\* leap years among the years 1..y
LeapsUpTo(y) == (y \div 4) - (y \div 100) + (y \div 400)

\* days from 1 January 1970 to day d of month m (1..12) of year y
DayNumber(y, m, d) ==
  365 * (y - 1970) + (LeapsUpTo(y - 1) - LeapsUpTo(1969))
    + SumSet(1..(m - 1), [k \in 1..12 |-> DaysInMonth(y, k)]) + (d - 1)

\* an instant is a day and a millisecond of that day on the server's local
\* calendar
At(day, ms) == [kind |-> "instant", day |-> day, ms |-> ms]
Leq(a, b) == a.day < b.day \/ (a.day = b.day /\ a.ms <= b.ms)

\* new Date("YYYY-MM-DD"): midnight UTC of that day, which on the local
\* calendar of a zone behind UTC still belongs to the previous day
UtcMidnight(day, offset) ==
  IF offset >= 0 THEN At(day, offset * 60000)
  ELSE At(day - 1, DayMs + offset * 60000)

\* date.setHours(0, 0, 0, 0) and date.setHours(23, 59, 59, 999) act on the
\* local calendar
StartOfDay(t) == At(t.day, 0)
EndOfDay(t)   == At(t.day, DayMs - 1)

\* ---- query parameters: absent (or empty), a text that is no number or
\* date, a decimal number, a date written YYYY-MM-DD
Absent == [kind |-> "absent"]
Text   == [kind |-> "text"]
Num(n) == [kind |-> "num", n |-> n]
Day(y, m, d) == [kind |-> "date", y |-> y, m |-> m, d |-> d]

\* the truth value of a query parameter
Truthy(x) == x.kind # "absent"

DateInputs  == {Absent, Text, Day(2024, 1, 15), Day(2024, 3, 10)}
YearInputs  == {Absent, Text, Num(1999), Num(2000), Num(2024), Num(2100),
                Num(2101)}
MonthInputs == {Absent, Text, Num(0), Num(1), Num(2), Num(12), Num(13)}

Queries ==
  [from : DateInputs, to : DateInputs, date : DateInputs \ {Day(2024, 3, 10)},
   year : YearInputs, month : MonthInputs]

\* the server's clock: the current instant (noon of 20 February 2024) and
\* the zone's offset from UTC in minutes
Clocks ==
  {[now |-> At(DayNumber(2024, 2, 20), 43200000), offset |-> o] :
     o \in {-300, 0, 120}}

Failure(msg) == [kind |-> "error", error |-> msg]
Range(a, b)  == [kind |-> "range", start |-> a, end |-> b]

\* parseDate(dateStr, isEndDate) for a truthy dateStr; an unparsable text
\* throws
parseDate(x, isEndDate, c) ==
  IF x.kind # "date" THEN Failure("date")
  ELSE LET t == UtcMidnight(DayNumber(x.y, x.m, x.d), c.offset) IN
       IF isEndDate THEN EndOfDay(t) ELSE StartOfDay(t)

\* a resolver that tries the single date before the custom range
RuleDayFirst(q) ==
  IF Truthy(q.date) THEN "day"
  ELSE IF Truthy(q.from) \/ Truthy(q.to) THEN "custom"
  ELSE IF Truthy(q.year) /\ Truthy(q.month) THEN "month"
  ELSE IF Truthy(q.year) THEN "year"
  ELSE "today"

\* the chain of tests if (from || to), if (date), if (year && month),
\* if (year), shared by buildTimeframeFilter and getTimeframeDescription
RuleOf(q) ==
  IF Truthy(q.from) \/ Truthy(q.to) THEN "custom"
  ELSE IF Truthy(q.date) THEN "day"
  ELSE IF Truthy(q.year) /\ Truthy(q.month) THEN "month"
  ELSE IF Truthy(q.year) THEN "year"
  ELSE "today"

\* a year test with the bounds one too wide
YearInvalidWide(y) == y.kind # "num" \/ y.n < MinYear - 1 \/ y.n > MaxYear + 1

\* isNaN(yearNum) || yearNum < 2000 || yearNum > 2100
YearInvalid(y) == y.kind # "num" \/ y.n < MinYear \/ y.n > MaxYear

\* a month test that lets 13 through
MonthInvalidWide(m) == m.kind # "num" \/ m.n - 1 < 0 \/ m.n - 1 > 12

\* monthNum = parseInt(month, 10) - 1;
\* isNaN(monthNum) || monthNum < 0 || monthNum > 11
MonthInvalid(m) == m.kind # "num" \/ m.n - 1 < 0 \/ m.n - 1 > 11

\* the custom range: from defaults to new Date(0), to to new Date()
CustomRange(q, c) ==
  LET startDate == IF Truthy(q.from) THEN parseDate(q.from, FALSE, c)
                   ELSE UtcMidnight(0, c.offset)
      endDate   == IF Truthy(q.to) THEN parseDate(q.to, TRUE, c)
                   ELSE c.now IN
  IF startDate = Failure("date") \/ endDate = Failure("date")
  THEN Failure("date")
  ELSE IF Truthy(q.from) /\ Truthy(q.to) /\ ~Leq(startDate, endDate)
       THEN Failure("order")
  ELSE Range(startDate, endDate)

DayRange(q, c) ==
  LET dayDate == parseDate(q.date, FALSE, c) IN
  IF dayDate = Failure("date") THEN dayDate
  ELSE Range(dayDate, EndOfDay(dayDate))

\* new Date(yearNum, monthNum, 1) to the end of new Date(yearNum,
\* monthNum + 1, 0), the month's last day
MonthRange(q, c) ==
  IF YearInvalid(q.year) THEN Failure("year")
  ELSE IF MonthInvalid(q.month) THEN Failure("month")
  ELSE Range(At(DayNumber(q.year.n, q.month.n, 1), 0),
             EndOfDay(At(DayNumber(q.year.n, q.month.n,
                                   DaysInMonth(q.year.n, q.month.n)), 0)))

YearRange(q, c) ==
  IF YearInvalid(q.year) THEN Failure("year")
  ELSE Range(At(DayNumber(q.year.n, 1, 1), 0),
             EndOfDay(At(DayNumber(q.year.n, 12, 31), 0)))

Today(c) == Range(StartOfDay(c.now), EndOfDay(c.now))

buildTimeframeFilter(q, c) ==
  LET rule == RuleOf(q) IN
  IF rule = "custom" THEN CustomRange(q, c)
  ELSE IF rule = "day" THEN DayRange(q, c)
  ELSE IF rule = "month" THEN MonthRange(q, c)
  ELSE IF rule = "year" THEN YearRange(q, c)
  ELSE Today(c)

\* the rule named by the label
getTimeframeDescription(q) == RuleOf(q)

\* GET /: a resolver error is answered with 400 before any query; otherwise
\* the expenses of the interval are listed under the timeframe's label
ListExpenses ==
  /\ answer = NoAnswer
  /\ LET f == buildTimeframeFilter(query, clock) IN
     answer' = IF f.kind = "error"
               THEN [kind |-> "400", error |-> f.error]
               ELSE [kind |-> "200", start |-> f.start, end |-> f.end,
                     label |-> getTimeframeDescription(query)]
  /\ UNCHANGED <<variant, stock, sales, customers, nextId, reqCount, req,
                 released, expVars, entVars, query, clock>>

\* the list endpoint alone, answering one request whose query string and
\* server clock are drawn from the bounded sets
InitList ==
  /\ InitLedger /\ variant = "sales_js"
  /\ query \in Queries
  /\ clock \in Clocks
  /\ answer = NoAnswer
NextList == ListExpenses
SpecList == InitList /\ [][NextList]_vars


\* the expense router alone with requests that interleave at every database
\* step
NextExp == \E s \in Slots : ExpStart(s, FALSE) \/ ExpStep(s)
SpecExp == InitExp /\ [][NextExp]_vars


\* ======================================================== the entries router
\* the texts a request carries as source; source.trim() is what is stored
Sources == {"", "shop", "shop "}
\* String.prototype.trim on the texts of the requests
trim(x) == IF x = "shop " THEN "shop" ELSE IF x = "  " THEN "" ELSE x

\* the descriptions a request carries: none or a text
Descriptions == {Undefined, "note"}

\* the users who call the entries router: an administrator and a manager
EntUsers == {"ua", "um"}

\* description ? description.trim() : ""
StoredDescription(d) == IF d = Undefined \/ d = "" THEN "" ELSE d

EntFree(s) == nreq[s].pc \in {"idle", "done"}

\* the response is sent; the operation, the actor, the entry id and the
\* outcome stay visible until the next request arrives
EntFinish(r, res) ==
  [r EXCEPT !.pc = "done", !.res = res, !.amount = 0, !.source = "",
            !.description = Undefined, !.reason = "", !.changes = {}]

\* a request is admitted into the lowest free slot; when requests run one
\* at a time (seq) only once every earlier one has been answered
EntAdmit(s, seq) ==
  /\ EntFree(s)
  /\ \A t \in Slots : Before(t, s) => ~EntFree(t)
  /\ entCount < MaxEntReq
  /\ seq => \A t \in Slots : EntFree(t)

\* the request is received and its handler runs up to and including its
\* first database call, which leaves the slot as r
EntBegin(s, r) ==
  /\ nreq' = [t \in Slots |-> IF t = s THEN [r EXCEPT !.no = entCount + 1]
                              ELSE IF nreq[t].pc = "done" THEN EntIdle
                              ELSE nreq[t]]
  /\ entCount' = entCount + 1

\* if (!amount || amount <= 0), if (!source); the requests carry a category
FieldsInvalid(r) == r.amount <= 0 \/ r.source = ""

\* ------------------------------------------------------ POST / (create)
\* open to every user: the field checks, then new Entry(entryData).save();
\* the list endpoint's default filter shows the status of a new entry to be
\* "active"
EntCreate(s, seq) ==
  /\ EntAdmit(s, seq)
  /\ \E u \in EntUsers, am \in 0..MaxEntryAmount, so \in Sources,
        de \in Descriptions :
       LET r == [EntIdle EXCEPT !.op = "create", !.user = u, !.amount = am,
                                !.source = so, !.description = de] IN
       IF FieldsInvalid(r)
       THEN /\ EntBegin(s, EntFinish(r, "validation"))
            /\ UNCHANGED <<entries, nextEntry>>
       ELSE /\ nextEntry <= MaxEntries
            /\ EntBegin(s, [EntFinish(r, "ok") EXCEPT !.id = nextEntry])
            /\ entries' = [entries EXCEPT ![nextEntry] =
                 [status |-> "active", amount |-> am, source |-> trim(so),
                  description |-> StoredDescription(de),
                  updatedBy |-> NoUser, deletedBy |-> NoUser,
                  editHistory |-> <<>>]]
            /\ nextEntry' = nextEntry + 1
  /\ UNCHANGED <<variant, stock, sales, customers, nextId, reqCount, req,
                 released, expVars, tfVars>>

\* --------------------------------------------------------- PUT /:id (edit)
\* the changes map: the fields whose stored value !== the value of the
\* request body (the amount after parseFloat)
EntChanges(e, r) ==
  {f \in {"amount", "source", "description"} :
     \/ f = "amount" /\ e.amount # r.amount
     \/ f = "source" /\ e.source # r.source
     \/ f = "description" /\ e.description # r.description}

\* req.user.role !== "admin" is refused
EntEditRole(u) == RoleOf(u) = "admin"

\* the role check, the field checks, Entry.findById, the guard on a deleted
\* entry and the test changes.size === 0
EntEditFind(r) ==
  LET e == entries[r.id] IN
  IF ~EntEditRole(r.user) THEN EntFinish(r, "forbidden")
  ELSE IF FieldsInvalid(r) \/ r.reason = "" \/ trim(r.reason) = ""
       THEN EntFinish(r, "validation")
  ELSE IF e = NoEntry THEN EntFinish(r, "notfound")
  ELSE IF e.status = "deleted" THEN EntFinish(r, "invalidstate")
  ELSE IF EntChanges(e, r) = {} THEN EntFinish(r, "nochange")
  ELSE [r EXCEPT !.pc = "ne_update", !.changes = EntChanges(e, r)]

StartEntEdit(s, seq) ==
  /\ EntAdmit(s, seq)
  /\ \E u \in EntUsers, id \in EntryIds, am \in 0..MaxEntryAmount,
        so \in Sources, de \in Descriptions, rs \in Reasons :
       EntBegin(s, EntEditFind([EntIdle EXCEPT !.op = "edit", !.user = u,
                                               !.id = id, !.amount = am,
                                               !.source = so,
                                               !.description = de,
                                               !.reason = rs]))
  /\ UNCHANGED <<variant, stock, sales, customers, nextId, reqCount, req,
                 released, expVars, tfVars, entries, nextEntry>>

\* Entry.findByIdAndUpdate(id, {amount, source: source.trim(), ...,
\* updatedBy, $push: {editHistory: {editedBy, changes, reason}}})
EntEditUpdate(s) ==
  /\ nreq[s].pc = "ne_update"
  /\ LET r == nreq[s] IN
     /\ entries' = [entries EXCEPT ![r.id] =
          [@ EXCEPT !.amount = r.amount, !.source = trim(r.source),
                    !.description = StoredDescription(r.description),
                    !.updatedBy = r.user,
                    !.editHistory =
                       Append(@, [editedBy |-> r.user, changes |-> r.changes,
                                  reason |-> trim(r.reason)])]]
     /\ nreq' = [nreq EXCEPT ![s] = EntFinish(r, "ok")]
  /\ UNCHANGED <<variant, stock, sales, customers, nextId, reqCount, req,
                 released, expVars, tfVars, nextEntry, entCount>>

\* --------------------------------------------------- DELETE /:id (delete)
\* if (entry.status === "deleted") is refused
EntDeleteGuard(e) == e.status # "deleted"

EntDeleteFind(r) ==
  LET e == entries[r.id] IN
  IF RoleOf(r.user) # "admin" THEN EntFinish(r, "forbidden")
  ELSE IF e = NoEntry THEN EntFinish(r, "notfound")
  ELSE IF ~EntDeleteGuard(e) THEN EntFinish(r, "invalidstate")
  ELSE [r EXCEPT !.pc = "nd_update"]

StartEntDelete(s, seq) ==
  /\ EntAdmit(s, seq)
  /\ \E u \in EntUsers, id \in EntryIds :
       EntBegin(s, EntDeleteFind([EntIdle EXCEPT !.op = "delete",
                                                 !.user = u, !.id = id]))
  /\ UNCHANGED <<variant, stock, sales, customers, nextId, reqCount, req,
                 released, expVars, tfVars, entries, nextEntry>>

\* Entry.findByIdAndUpdate(id, {status: "deleted", deletedBy, deletedAt})
EntDeleteUpdate(s) ==
  /\ nreq[s].pc = "nd_update"
  /\ LET r == nreq[s] IN
     /\ entries' = [entries EXCEPT ![r.id] =
          [@ EXCEPT !.status = "deleted", !.deletedBy = r.user]]
     /\ nreq' = [nreq EXCEPT ![s] = EntFinish(r, "ok")]
  /\ UNCHANGED <<variant, stock, sales, customers, nextId, reqCount, req,
                 released, expVars, tfVars, nextEntry, entCount>>

\* ------------------------------------------- PATCH /:id/restore (restore)
\* if (entry.status !== "deleted") is refused
EntRestoreGuard(e) == e.status = "deleted"

EntRestoreFind(r) ==
  LET e == entries[r.id] IN
  IF RoleOf(r.user) # "admin" THEN EntFinish(r, "forbidden")
  ELSE IF e = NoEntry THEN EntFinish(r, "notfound")
  ELSE IF ~EntRestoreGuard(e) THEN EntFinish(r, "invalidstate")
  ELSE [r EXCEPT !.pc = "nr_update"]

StartEntRestore(s, seq) ==
  /\ EntAdmit(s, seq)
  /\ \E u \in EntUsers, id \in EntryIds :
       EntBegin(s, EntRestoreFind([EntIdle EXCEPT !.op = "restore",
                                                  !.user = u, !.id = id]))
  /\ UNCHANGED <<variant, stock, sales, customers, nextId, reqCount, req,
                 released, expVars, tfVars, entries, nextEntry>>

\* Entry.findByIdAndUpdate(id, {status: "active", deletedBy: null,
\* deletedAt: null, updatedBy})
EntRestoreUpdate(s) ==
  /\ nreq[s].pc = "nr_update"
  /\ LET r == nreq[s] IN
     /\ entries' = [entries EXCEPT ![r.id] =
          [@ EXCEPT !.status = "active", !.deletedBy = NoUser,
                    !.updatedBy = r.user]]
     /\ nreq' = [nreq EXCEPT ![s] = EntFinish(r, "ok")]
  /\ UNCHANGED <<variant, stock, sales, customers, nextId, reqCount, req,
                 released, expVars, tfVars, nextEntry, entCount>>

\* --------------------------------------- the entries router's specification
EntStart(s, seq) ==
  \/ EntCreate(s, seq) \/ StartEntEdit(s, seq) \/ StartEntDelete(s, seq)
  \/ StartEntRestore(s, seq)

EntStep(s) == EntEditUpdate(s) \/ EntDeleteUpdate(s) \/ EntRestoreUpdate(s)

\* the entries router alone, one request at a time
NextEntSeq == \E s \in Slots : EntStart(s, TRUE) \/ EntStep(s)
SpecEntSeq == InitExp /\ [][NextEntSeq]_vars


\* ---------------------------------------------------------- fair scheduling
\* a handler that waits on a database call is resumed once the call returns:
\* the step of a request in flight is taken eventually
FairSpec == Spec /\ \A s \in Slots : WF_vars(Step(s))


\* ================================================================== claims
\* the request of slot s arrives in this step
Arrives(s) == reqCount' = reqCount + 1 /\ req'[s].no = reqCount'

\* the quantity of product p held by the existing records that are not voided
Held(p) ==
  SumSet({id \in SaleIds : sales[id] # NoSale /\ sales[id].status # "voided"},
         [id \in SaleIds |-> IF sales[id] = NoSale THEN 0
                             ELSE QtyOf(sales[id].items, p)])

\* C1: in every reachable state, under any interleaving of create, edit,
\* void and delete requests and also between the database steps of one
\* handler, every product's stock is >= 0.
C1_StockNeverNegative == \A p \in Products : stock[p] >= 0

\* C2: when requests run one at a time, after every completed operation and
\* for every product, the initial stock equals the current stock plus the
\* quantities of that product held by the existing non-voided records.
C2_StockConservation ==
  Quiescent => \A p \in Products : InitStock = stock[p] + Held(p)

\* C3: a create that is answered with the error of a refused conditional
\* decrement leaves every product's stock at its value before the request
\* and persists no record.
C3_CreateAllOrNothing ==
  \A s \in Slots :
    (req[s].pc = "done" /\ req[s].op = "create" /\ req[s].res = "conflict")
      => /\ req[s].moved = ZeroMove
         /\ req[s].id = 0

\* two creates that overlapped, each asking for one line of product p, each
\* quantity within the initial stock and the two together beyond it
C4_Pair(p) ==
  /\ reqCount = 2
  /\ \A s \in Slots :
       /\ req[s].pc = "done" /\ req[s].op = "create"
       /\ Len(req[s].items) = 1
       /\ req[s].items[1].productId = p
       /\ ~ItemInvalid(req[s].items[1])
       /\ req[s].items[1].quantity <= InitStock
  /\ req["s1"].items[1].quantity + req["s2"].items[1].quantity > InitStock

\* C4: of two concurrent creates for the same product with quantities each
\* within the stock and together beyond it, exactly one succeeds, the other
\* is answered insufficient stock or conflict, and the final stock is the
\* initial stock minus the successful quantity.
C4_ReservationAtomicity ==
  \A p \in Products :
    C4_Pair(p) =>
      \E s \in Slots : \E t \in Slots \ {s} :
         /\ req[s].res = "ok"
         /\ req[t].res \in {"insufficient", "conflict"}
         /\ stock[p] = InitStock - req[s].items[1].quantity

\* both creates passed the pre-check and the second decrement was refused
C4_Witness ==
  /\ C4_Pair("p1")
  /\ \E s \in Slots : \E t \in Slots \ {s} :
       /\ req[s].res = "ok" /\ req[t].res = "conflict"
       /\ stock["p1"] = InitStock - req[s].items[1].quantity

\* C5: an edit answered with insufficient stock leaves every product's stock
\* at its value before the edit (and the record untouched), however many
\* adjustments the edit has and whichever of them fails.
C5_FailedEditRollsBack ==
  \A s \in Slots :
    (req[s].pc = "done" /\ req[s].op = "edit" /\ req[s].res = "insufficient")
      => req[s].moved = ZeroMove

\* C6: across any interleaving of void and delete requests on one record,
\* the quantities of its line items are added back to stock at most once.
C6_ReleasedOnce == \A id \in SaleIds : released[id] <= 1

\* C7: once a record's status is voided no request changes that status; the
\* record can only be deleted.
C7_VoidedTerminal ==
  [][\A id \in SaleIds :
       (sales[id] # NoSale /\ sales[id].status = "voided")
         => (sales'[id] = NoSale \/ sales'[id].status = "voided")]_vars

\* the records of customer c that are neither voided nor corrected
C8_Records(c) ==
  {id \in SaleIds : /\ sales[id] # NoSale
                    /\ sales[id].customerId = c
                    /\ sales[id].status \notin {"voided", "corrected"}}

\* C8: when requests run one at a time, after every completed operation each
\* customer's totalPurchases, totalSpent, firstPurchaseDate and
\* lastPurchaseDate are the count, the sum of totals, the earliest and the
\* latest createdAt of that customer's records that are neither voided nor
\* corrected.
C8_AggregateEqualsFold ==
  Quiescent =>
    \A c \in Phones :
      customers[c] # NoCust =>
        LET S == C8_Records(c) IN
        /\ customers[c].totalPurchases = Cardinality(S)
        /\ customers[c].totalSpent = SumSet(S, [id \in S |-> sales[id].total])
        /\ S # {} =>
             /\ customers[c].firstPurchaseDate
                  = MinOf({sales[id].createdAt : id \in S})
             /\ customers[c].lastPurchaseDate
                  = MaxOf({sales[id].createdAt : id \in S})

\* the record a request names exists and its status is voided
C9_Voided(id) == sales[id] # NoSale /\ sales[id].status = "voided"

\* a void arriving for a voided record is answered with a rejection at once
C9_VoidRejected(s) ==
  (Arrives(s) /\ req'[s].op = "void" /\ C9_Voided(req'[s].id))
    => /\ req'[s].pc = "done"
       /\ req'[s].res \in {"forbidden", "invalidstate"}
       /\ req'[s].moved = ZeroMove
       /\ stock' = stock

\* the removal step of a delete that read a voided record removes the record
\* and has moved, and moves, no stock
C9_RemovesUntouched(s) ==
  (req[s].op = "delete" /\ req[s].pc = "d_remove"
     /\ req[s].snap.status = "voided" /\ req'[s] # req[s])
    => /\ sales'[req[s].id] = NoSale
       /\ req[s].moved = ZeroMove
       /\ stock' = stock

\* C9 as stated: when requests run one at a time, a void on a voided record
\* is rejected and changes no stock, and a delete on a voided record goes on
\* to remove the record and changes no stock.
C9_AsStated ==
  [][\A s \in Slots :
       /\ C9_VoidRejected(s)
       /\ (Arrives(s) /\ req'[s].op = "delete" /\ C9_Voided(req'[s].id))
            => req'[s].pc = "d_remove"
       /\ C9_RemovesUntouched(s)]_vars

\* C9: when requests run one at a time, a void on a voided record is
\* rejected and changes no stock; a delete on a voided record changes no
\* stock and removes the record, unless the record is a reservation and the
\* router that restricts the deletion of reservations refuses the caller.
C9_VoidDeleteGuard ==
  [][\A s \in Slots :
       /\ C9_VoidRejected(s)
       /\ (Arrives(s) /\ req'[s].op = "delete" /\ C9_Voided(req'[s].id))
            => \/ req'[s].pc = "d_remove"
               \/ /\ req'[s].pc = "done" /\ req'[s].res = "forbidden"
                  /\ variant # "sales_js"
                  /\ sales[req'[s].id].type = "reservation"
                  /\ req'[s].moved = ZeroMove
                  /\ sales' = sales /\ stock' = stock
       /\ C9_RemovesUntouched(s)]_vars

\* a delete has read a record that an earlier void released and is about to
\* remove it
C9_Witness ==
  \E s \in Slots :
    /\ req[s].op = "delete" /\ req[s].pc = "d_remove"
    /\ req[s].snap # NoSale /\ req[s].snap.status = "voided"
    /\ released[req[s].id] = 1
    /\ Len(req[s].snap.items) > 0

\* C10: the delete of a sale or reservation that was never voided and holds
\* line items has, when it removes the record, added each line item's
\* quantity back to the product's stock.
C10_DeleteReturnsStock ==
  \A s \in Slots :
    (/\ req[s].op = "delete" /\ req[s].pc = "d_remove"
     /\ req[s].snap # NoSale
     /\ req[s].snap.type \in {"sale", "reservation"}
     /\ req[s].snap.status # "voided"
     /\ Len(req[s].snap.items) > 0)
      => \A p \in Products : req[s].moved[p] = QtyOf(req[s].snap.items, p)

\* C11: when requests run one at a time, an edit of a sale or reservation
\* that has applied its adjustments and goes on to update the record has
\* moved, for every product, the quantity the old line items hold of it
\* minus the quantity the new line items hold of it.
C11_EditStockDelta ==
  \A s \in Slots :
    (req[s].op = "edit" /\ req[s].pc = "e_update")
      => \A p \in Products :
           req[s].moved[p] = QtyOf(req[s].snap.items, p) - QtyOf(req[s].items, p)

\* C12: the conditional decrement of create succeeds exactly when the stock
\* at the instant of the update is at least the quantity, and then lowers
\* the stock by exactly the quantity; when it is refused the stock is
\* unchanged and the request is answered with the conflict; the release of
\* void raises the stock by exactly the quantity.
C12_ReservePrimitive ==
  [][\A s \in Slots :
       /\ (req[s].pc = "c_reserve" /\ req'[s] # req[s])
            => LET it == req[s].items[req[s].i] IN
               IF stock[it.productId] >= it.quantity
               THEN /\ stock' = [stock EXCEPT ![it.productId] = @ - it.quantity]
                    /\ req'[s].res # "conflict"
               ELSE /\ stock' = stock
                    /\ req'[s].pc = "done" /\ req'[s].res = "conflict"
       /\ (req[s].pc = "v_release" /\ req'[s] # req[s])
            => LET it == req[s].snap.items[req[s].i] IN
               stock' = [stock EXCEPT ![it.productId] = @ + it.quantity]]_vars

\* a create of one line item passed the pre-check, found the stock taken at
\* its decrement and was refused without having moved any stock
C12_Witness ==
  \E s \in Slots :
    /\ req[s].op = "create" /\ req[s].pc = "done" /\ req[s].res = "conflict"
    /\ Len(req[s].items) = 1 /\ req[s].moved = ZeroMove

\* C13: when requests run one at a time, a create or edit answered with a
\* validation error (bad item fields, or a schema validation failure when
\* the record is saved) has moved no product's stock and persisted no
\* record.
C13_ValidationNoChange ==
  \A s \in Slots :
    (req[s].pc = "done" /\ req[s].op \in {"create", "edit"}
       /\ req[s].res = "validation")
      => req[s].moved = ZeroMove /\ (req[s].op = "create" => req[s].id = 0)

\* C14: when requests run one at a time and a recomputation of a customer
\* directly follows one of the same customer, the second computes, and
\* writes, the four aggregate fields the first one returned.
C14_RecomputeIdempotent ==
  [][\A s \in Slots : \A t \in Slots :
       /\ (/\ Arrives(s) /\ req'[s].op = "recalculate"
           /\ req[t].pc = "done" /\ req[t].op = "recalculate"
           /\ req[t].custId = req'[s].custId)
            => /\ req'[s].agg = req[t].agg
               /\ req'[s].agg = customers[req[t].custId]
       /\ (/\ req[s].pc = "q_write" /\ req'[s] # req[s]
           /\ customers[req[s].custId] = req[s].agg)
            => customers' = customers]_vars

\* a second recomputation of a customer with a sale has answered with the
\* aggregate that is stored
C14_Witness ==
  \E s \in Slots :
    /\ req[s].pc = "done" /\ req[s].op = "recalculate" /\ req[s].no = 3
    /\ req[s].custId # NoId
    /\ req[s].agg = customers[req[s].custId]
    /\ req[s].agg.totalPurchases = 1
    /\ nextId = 2

\* C15: when requests run one at a time, the recomputation that ends a void
\* leaves the customer of the voided sale with totalSpent equal to the sum
\* of the totals, and totalPurchases equal to the count, of that customer's
\* records that are neither voided nor corrected.
C15_VoidedExcluded ==
  [][\A s \in Slots :
       (req[s].op = "void" /\ req[s].pc = "recalc_write" /\ req'[s].pc = "done")
         => LET c == req[s].custId
                S == C8_Records(c) IN
            /\ sales' = sales
            /\ sales[req[s].id].status = "voided"
            /\ customers'[c] # NoCust
            /\ customers'[c].totalPurchases = Cardinality(S)
            /\ customers'[c].totalSpent
                 = SumSet(S, [id \in S |-> sales[id].total])]_vars

\* a customer with two sales, one of them voided by the request just
\* answered, counts one purchase
C15_Witness ==
  \E s \in Slots :
    /\ req[s].op = "void" /\ req[s].pc = "done" /\ req[s].res = "ok"
    /\ sales[1] # NoSale /\ sales[2] # NoSale
    /\ sales[req[s].id].status = "voided"
    /\ \E id \in SaleIds \ {req[s].id} :
         /\ sales[id].status # "voided"
         /\ sales[id].customerId = "ph1"
         /\ customers["ph1"].totalPurchases = 1
         /\ customers["ph1"].totalSpent = sales[id].total

\* the aggregate of a customer without purchases
C16_Reset ==
  [totalPurchases |-> 0, totalSpent |-> 0,
   firstPurchaseDate |-> Null, lastPurchaseDate |-> Null]

\* C16: when requests run one at a time, a recomputation for a customer who
\* has no record left that is neither voided nor corrected writes
\* totalPurchases 0, totalSpent 0 and null dates, and the customer document
\* stays in the collection.
C16_EmptyResets ==
  [][\A s \in Slots :
       (/\ req[s].pc \in {"recalc_write", "q_write"} /\ req'[s].pc = "done"
        /\ req[s].custId # NoId
        /\ customers[req[s].custId] # NoCust
        /\ C8_Records(req[s].custId) = {})
         => customers'[req[s].custId] = C16_Reset]_vars

\* the only sale of the customer was voided or deleted and the customer is
\* still there, with an aggregate that was reset
C16_Witness ==
  /\ Quiescent
  /\ nextId = 2
  /\ customers["ph1"] = C16_Reset
  /\ C8_Records("ph1") = {}
  /\ \E s \in Slots : req[s].pc = "done" /\ req[s].res = "ok"
                      /\ req[s].op \in {"void", "delete"}

\* C17: when requests run one at a time, an edit arriving for a record whose
\* status is voided or corrected is rejected at once, whoever sends it, and
\* stock, records and customer aggregates stay as they are; an edit arriving
\* for a pending or completed record is not rejected for the record's state.
C17_EditGuard ==
  [][\A s \in Slots :
       (Arrives(s) /\ req'[s].op = "edit" /\ sales[req'[s].id] # NoSale)
         => IF sales[req'[s].id].status \in {"voided", "corrected"}
            THEN /\ req'[s].pc = "done"
                 /\ req'[s].res \in {"invalidstate", "forbidden"}
                 /\ req'[s].moved = ZeroMove
                 /\ stock' = stock /\ sales' = sales /\ customers' = customers
            ELSE req'[s].res # "invalidstate"]_vars

\* an edit of a voided record has been answered with the rejection
C17_Witness ==
  \E s \in Slots :
    /\ req[s].op = "edit" /\ req[s].pc = "done" /\ req[s].res = "invalidstate"
    /\ sales[req[s].id] # NoSale /\ sales[req[s].id].status = "voided"

\* C18: the step that saves the record of a successful create stores status
\* completed for a sale and pending for a reservation, and by then the
\* request has lowered every product's stock by the quantity its line items
\* hold of it; the save itself moves no stock.
C18_CreateStatusAndOrder ==
  [][\A s \in Slots :
       (req[s].pc = "c_save" /\ req'[s].pc = "done" /\ req'[s].res = "ok")
         => LET id == req'[s].id
                reservation == req[s].type = "reservation" IN
            /\ sales[id] = NoSale /\ sales'[id] # NoSale
            /\ sales'[id].type = (IF reservation THEN "reservation" ELSE "sale")
            /\ sales'[id].status = (IF reservation THEN "pending" ELSE "completed")
            /\ sales'[id].items = req[s].items
            /\ \A p \in Products :
                 req[s].moved[p] = 0 - QtyOf(req[s].items, p)
            /\ stock' = stock]_vars

\* a reservation has been created as pending with its stock taken
C18_Witness ==
  \E s \in Slots :
    /\ req[s].op = "create" /\ req[s].pc = "done" /\ req[s].res = "ok"
    /\ reqCount = 1
    /\ sales[req[s].id].type = "reservation"
    /\ sales[req[s].id].status = "pending"
    /\ QtyOf(req[s].items, "p1") > 0
    /\ \A p \in Products : stock[p] = InitStock - QtyOf(req[s].items, p)

\* C19: when requests run one at a time, a complete request arriving for a
\* completed record is rejected at once and changes nothing; one arriving
\* for a pending reservation goes on to set status completed and
\* completedAt (with completedBy); complete never changes product stock.
C19_Complete ==
  [][\A s \in Slots :
       /\ (/\ Arrives(s) /\ req'[s].op = "complete"
           /\ sales[req'[s].id] # NoSale
           /\ sales[req'[s].id].status = "completed")
            => /\ req'[s].pc = "done"
               /\ req'[s].res \in {"invalidstate", "validation"}
               /\ sales' = sales /\ stock' = stock
       /\ (/\ Arrives(s) /\ req'[s].op = "complete"
           /\ sales[req'[s].id] # NoSale
           /\ sales[req'[s].id].type = "reservation"
           /\ sales[req'[s].id].status = "pending")
            => req'[s].pc = "k_update"
       /\ (req[s].pc = "k_update" /\ req'[s] # req[s])
            => /\ req'[s].pc = "done" /\ req'[s].res = "ok"
               /\ req'[s].moved = ZeroMove /\ stock' = stock
               /\ sales[req[s].id] # NoSale
                    => /\ sales'[req[s].id].status = "completed"
                       /\ sales'[req[s].id].completedAt = reqCount
                       /\ sales'[req[s].id].completedAt # Null]_vars

\* a pending reservation has been completed
C19_Witness ==
  \E s \in Slots :
    /\ req[s].op = "complete" /\ req[s].pc = "done" /\ req[s].res = "ok"
    /\ req[s].no = 2
    /\ sales[req[s].id].type = "reservation"
    /\ sales[req[s].id].status = "completed"
    /\ sales[req[s].id].completedAt = 2

\* C20: when requests run one at a time, a request to return a completed
\* reservation to pending goes on to the update only when the caller's role
\* is admin, and the update then sets status pending and clears completedAt
\* (with completedBy); from any other caller it is answered with the
\* permission error and the records stay as they are.
C20_ReopenRestricted ==
  [][\A s \in Slots :
       /\ (/\ Arrives(s) /\ req'[s].op = "pending"
           /\ sales[req'[s].id] # NoSale
           /\ sales[req'[s].id].type = "reservation"
           /\ sales[req'[s].id].status = "completed")
            => IF req'[s].pc = "r_update"
               THEN req'[s].role = "admin"
               ELSE /\ req'[s].pc = "done" /\ req'[s].res = "forbidden"
                    /\ sales' = sales /\ stock' = stock
       /\ (/\ req[s].pc = "r_update" /\ req'[s] # req[s]
           /\ sales[req[s].id] # NoSale)
            => /\ sales'[req[s].id].status = "pending"
               /\ sales'[req[s].id].completedAt = Null
               /\ req'[s].res = "ok"]_vars

\* an admin is about to return a completed reservation to pending
C20_Witness ==
  \E s \in Slots :
    /\ req[s].op = "pending" /\ req[s].pc = "r_update"
    /\ req[s].role = "admin"
    /\ sales[req[s].id] # NoSale
    /\ sales[req[s].id].type = "reservation"
    /\ sales[req[s].id].status = "completed"
    /\ sales[req[s].id].completedAt # Null

\* the step of slot s commits the update of an existing record by a request
\* whose handler is at one of the given positions
Commits(s, pcs) ==
  /\ req[s].pc \in pcs
  /\ req'[s].pc # req[s].pc
  /\ sales[req[s].id] # NoSale

\* C21: every step by which an edit, a void, a complete or a reopen commits
\* its update of a record appends exactly one editHistory entry, which
\* carries a reason.
C21_OneEntryPerChange ==
  [][\A s \in Slots :
       Commits(s, {"e_update", "e_expense", "v_update", "k_update", "r_update"})
         => LET h == sales[req[s].id].editHistory
                g == sales'[req[s].id].editHistory IN
            /\ Len(g) = Len(h) + 1
            /\ g[Len(g)].reason = "given"]_vars

\* the tracked fields whose committed value differs between records a and b
Differing(a, b) ==
  (IF a.customer # b.customer THEN {"customer"} ELSE {})
    \cup (IF a.total # b.total THEN {"total"} ELSE {})
    \cup (IF a.type # b.type THEN {"type"} ELSE {})

\* C22: the changes map of the entry an edit appends names exactly the
\* tracked fields whose committed value after the edit differs from the
\* value before it.
C22_ChangesAreTheDifferences ==
  [][\A s \in Slots :
       Commits(s, {"e_update"})
         => LET g == sales'[req[s].id].editHistory IN
            g[Len(g)].changes = Differing(sales[req[s].id], sales'[req[s].id])]_vars

\* h is a prefix of g
IsPrefix(h, g) == Len(h) <= Len(g) /\ \A i \in 1..Len(h) : g[i] = h[i]

\* C23: for every record that exists before and after a step, under any
\* interleaving of requests, the editHistory before the step is a prefix of
\* the editHistory after it.
C23_HistoryAppendOnly ==
  [][\A id \in SaleIds :
       (sales[id] # NoSale /\ sales'[id] # NoSale)
         => IsPrefix(sales[id].editHistory, sales'[id].editHistory)]_vars

\* a record carries the entry of an edit followed by the entry of a void
C23_Witness ==
  \E id \in SaleIds :
    /\ sales[id] # NoSale
    /\ Len(sales[id].editHistory) = 2
    /\ sales[id].editHistory[2].changes = {"status"}

\* the request of slot s to the expense router arrives in this step
ExpArrives(s, op) ==
  /\ expCount' = expCount + 1
  /\ ereq'[s].no = expCount'
  /\ ereq'[s].op = op

\* the request that arrived in slot s got past its handler's checks
ExpAccepted(s) == ereq'[s].pc \notin {"idle", "done"}

\* C24: an edit of a validated or rejected expense gets past the checks only
\* for an actor whose role is admin and with a non-empty update reason, and
\* an edit of a pending expense only for its recorder or an admin or
\* manager; every other edit leaves the expenses unchanged, and the update of
\* a validated or rejected expense records the reason in the notes.
C24_EditAuthorisation ==
  [][\A s \in Slots :
       /\ (ExpArrives(s, "edit") /\ expenses[ereq'[s].id] # NoExp)
            => LET e == expenses[ereq'[s].id]
                   u == ereq'[s].user IN
               /\ expenses' = expenses
               /\ (ExpAccepted(s) /\ e.status \in {"validated", "rejected"})
                    => RoleOf(u) = "admin" /\ ereq'[s].reason \notin {"", "  "}
               /\ (ExpAccepted(s) /\ e.status = "pending")
                    => e.recordedBy = u \/ RoleOf(u) \in {"admin", "manager"}
       /\ (ereq[s].pc = "xe_update" /\ ereq'[s].pc = "done"
             /\ ereq[s].snap.status # "pending")
            => LET n == expenses'[ereq[s].id].notes IN
               n[Len(n)].reason = ereq[s].reason]_vars

\* may actor u delete expense e: an admin any expense, an ordinary actor a
\* pending expense they recorded, a manager a pending expense
C25_MayDelete(u, e) ==
  \/ RoleOf(u) = "admin"
  \/ e.status = "pending" /\ (e.recordedBy = u \/ RoleOf(u) = "manager")

\* C25: a delete, by either route, gets past the checks only when the actor
\* is an admin, or the expense is pending and the actor recorded it or has
\* elevated privilege; every other delete leaves the expense in place.
C25_DeleteAuthorisation ==
  [][\A s \in Slots :
       /\ ((ExpArrives(s, "delete") \/ ExpArrives(s, "admindelete"))
             /\ expenses[ereq'[s].id] # NoExp)
            => /\ expenses' = expenses
               /\ ExpAccepted(s)
                    => C25_MayDelete(ereq'[s].user, expenses[ereq'[s].id])
       /\ (ereq[s].pc \in {"xa_remove", "xd_remove"} /\ ereq'[s].pc = "done")
            => expenses'[ereq[s].id] = NoExp]_vars

\* C26: a validate request gets past the checks exactly when the actor is an
\* admin or a manager and the expense is pending, and its update then sets
\* the status to validated; any other validate request is answered with an
\* error and the expenses are unchanged.
C26_Validate ==
  [][\A s \in Slots :
       /\ (ExpArrives(s, "validate") /\ expenses[ereq'[s].id] # NoExp)
            => LET e == expenses[ereq'[s].id]
                   u == ereq'[s].user IN
               /\ expenses' = expenses
               /\ ExpAccepted(s)
                    <=> (RoleOf(u) \in {"admin", "manager"}
                           /\ e.status = "pending")
               /\ ~ExpAccepted(s) => ereq'[s].res \notin {"ok", "none"}
       /\ (ereq[s].pc = "xv_update" /\ ereq'[s].pc = "done")
            => /\ ereq'[s].res = "ok"
               /\ expenses'[ereq[s].id].status = "validated"]_vars

\* a validate request has succeeded and another one, on a validated
\* expense, has been refused
C26_Witness ==
  /\ \E id \in ExpIds : expenses[id] # NoExp /\ expenses[id].status = "validated"
  /\ \E s \in Slots :
       /\ ereq[s].pc = "done" /\ ereq[s].op = "validate"
       /\ ereq[s].res = "invalidstate"

\* C27: a reject request gets past the checks exactly when the actor is an
\* admin or a manager, the expense is pending and the reason is not empty,
\* and its update then sets the status to rejected; any other reject request
\* is answered with an error and the expenses are unchanged.
C27_Reject ==
  [][\A s \in Slots :
       /\ (ExpArrives(s, "reject") /\ expenses[ereq'[s].id] # NoExp)
            => LET e == expenses[ereq'[s].id]
                   u == ereq'[s].user IN
               /\ expenses' = expenses
               /\ ExpAccepted(s)
                    <=> (RoleOf(u) \in {"admin", "manager"}
                           /\ e.status = "pending" /\ ereq'[s].reason # "")
               /\ ~ExpAccepted(s) => ereq'[s].res \notin {"ok", "none"}
       /\ (ereq[s].pc = "xr_update" /\ ereq'[s].pc = "done")
            => /\ ereq'[s].res = "ok"
               /\ expenses'[ereq[s].id].status = "rejected"]_vars

\* a reject request has succeeded and a later one without a reason, on a
\* pending expense, has been refused
C27_Witness ==
  /\ \E id \in ExpIds : expenses[id] # NoExp /\ expenses[id].status = "rejected"
  /\ \E s \in Slots :
       /\ ereq[s].pc = "done" /\ ereq[s].op = "reject"
       /\ ereq[s].res = "validation"

\* the first matching rule in the order custom range, single date, year with
\* month, year alone, today
C28_Rule(q) ==
  IF q.from # Absent \/ q.to # Absent THEN "custom"
  ELSE IF q.date # Absent THEN "day"
  ELSE IF q.year # Absent /\ q.month # Absent THEN "month"
  ELSE IF q.year # Absent THEN "year"
  ELSE "today"

\* the query without the hints of lower priority than its first matching rule
C28_Strip(q) ==
  LET rule == C28_Rule(q) IN
  IF rule = "custom"
  THEN [q EXCEPT !.date = Absent, !.year = Absent, !.month = Absent]
  ELSE IF rule = "day" THEN [q EXCEPT !.year = Absent, !.month = Absent]
  ELSE IF rule = "today" THEN [q EXCEPT !.month = Absent]
  ELSE q

\* the interval (or error) of the first matching rule alone
C28_Interval(q, c) ==
  LET rule == C28_Rule(q)
      p == C28_Strip(q) IN
  IF rule = "custom" THEN CustomRange(p, c)
  ELSE IF rule = "day" THEN DayRange(p, c)
  ELSE IF rule = "month" THEN MonthRange(p, c)
  ELSE IF rule = "year" THEN YearRange(p, c)
  ELSE Today(c)

\* C28: for every combination of from, to, date, year and month the answer
\* is the interval (or the error) of the first matching rule in the order
\* custom range, single date, year with month, year alone, today, computed
\* from the query without its hints of lower priority.
C28_TimeframePriority ==
  answer # NoAnswer
    => LET f == C28_Interval(query, clock) IN
       /\ answer.kind = "400" <=> f.kind = "error"
       /\ answer.kind = "200" => (answer.start = f.start /\ answer.end = f.end)
       /\ answer.kind = "200" => answer.label = C28_Rule(query)

\* a custom range was answered although a date, an invalid year and an
\* invalid month were given too
C28_Witness ==
  /\ answer.kind = "200" /\ answer.label = "custom"
  /\ query.from = Day(2024, 1, 15) /\ query.to = Absent
  /\ query.date = Text /\ query.year = Num(2101) /\ query.month = Num(13)
  /\ answer.end = clock.now

\* C29: when the month rule or the year rule applies, a year that is not a
\* number of 2000..2100, or under the month rule a month that is not a number
\* of 1..12, is answered with 400 and no interval.
C29_TimeframeValidation ==
  (answer # NoAnswer /\ C28_Rule(query) \in {"month", "year"})
    => LET yearBad  == query.year.kind # "num"
                         \/ query.year.n \notin 2000..2100
           monthBad == C28_Rule(query) = "month"
                         /\ (query.month.kind # "num"
                               \/ query.month.n \notin 1..12) IN
       (yearBad \/ monthBad) <=> answer.kind = "400"

\* year 2024 with month 13 was answered with the month error
C29_Witness ==
  /\ query.from = Absent /\ query.to = Absent /\ query.date = Absent
  /\ query.year = Num(2024) /\ query.month = Num(13)
  /\ answer.kind = "400" /\ answer.error = "month"

\* C30: with only to the interval starts at the epoch start; with only from
\* it ends at the current instant; with both the request is rejected exactly
\* when from is a later day than to, and otherwise the interval runs from
\* the start of the from day to the end of the to day.
C30_CustomRange ==
  (answer # NoAnswer /\ query.from.kind \in {"absent", "date"}
     /\ query.to.kind \in {"absent", "date"})
    => LET f == query.from
           t == query.to
           fromDay == DayNumber(f.y, f.m, f.d)
           toDay   == DayNumber(t.y, t.m, t.d) IN
       /\ (f = Absent /\ t # Absent)
            => /\ answer.kind = "200"
               /\ answer.start = UtcMidnight(0, clock.offset)
       /\ (f # Absent /\ t = Absent)
            => answer.kind = "200" /\ answer.end = clock.now
       /\ (f # Absent /\ t # Absent)
            => /\ answer.kind = "400" <=> fromDay > toDay
               /\ answer.kind = "200"
                    => /\ answer.start = At(fromDay, 0)
                       /\ answer.end = At(toDay, DayMs - 1)

\* C31: a create is refused by the item validation, before any stock change,
\* only when one of its items has quantity <= 0 or a negative price; an item
\* with quantity > 0 and price 0 is accepted.
C31_ItemValidation ==
  \A s \in Slots :
    (req[s].pc = "done" /\ req[s].op = "create" /\ req[s].res = "validation"
       /\ req[s].moved = ZeroMove)
      => \E i \in 1..Len(req[s].items) :
           req[s].items[i].quantity <= 0 \/ req[s].items[i].price < 0

\* C32: every persisted sale or reservation has total >= 0 and
\* total = subtotal = the sum over its items of price times quantity.
C32_Totals ==
  \A id \in SaleIds :
    (sales[id] # NoSale /\ sales[id].type \in {"sale", "reservation"})
      => /\ sales[id].total >= 0
         /\ sales[id].total = sales[id].subtotal
         /\ sales[id].total = Subtotal(sales[id].items)

\* C33: a step of a create writes the customer collection only after the
\* request's stock reservations have succeeded and its record has been
\* persisted.
C33_AggregateAfterPersist ==
  [][\A s \in Slots :
       (req[s].op = "create" /\ req'[s] # req[s] /\ customers' # customers)
         => req[s].id # 0]_vars

\* no product is named by two lines of the list
C34_Distinct(items) ==
  \A i, j \in 1..Len(items) :
    items[i].productId = items[j].productId => i = j

\* request s writes the record as the second of two requests on it: it is an
\* edit or a void about to run its update, the record it read is no longer
\* the stored one because request t, an edit or a void of the same record,
\* read it and wrote it in between; at least one of the two is an edit, and
\* neither the records nor the new items list name a product twice
C34_SecondWrite(s, t) ==
  /\ s # t
  /\ req[s].pc \in {"e_update", "v_update"}
  /\ req'[s].pc # req[s].pc
  /\ req[t].op \in {"edit", "void"} /\ req[t].id = req[s].id
  /\ req[t].pc \in {"done", "recalc_read", "recalc_write"}
  /\ req[t].pc = "done" => req[t].res = "ok"
  /\ req[s].op = "edit" \/ req[t].op = "edit"
  /\ req[s].snap # NoSale /\ sales[req[s].id] # NoSale
  /\ req[s].snap # sales[req[s].id]
  /\ C34_Distinct(req[s].snap.items)
  /\ C34_Distinct(req[s].items)
  /\ C34_Distinct(sales[req[s].id].items)

\* C34: when two edits, or an edit and a void, of one record interleave so
\* that both read it before either writes it, then once the second has
\* written (from then on the stock and the items no longer change before
\* both have responded) the initial stock of every product equals its current
\* stock plus the quantities held by the existing non-voided records.
C34_ConcurrentMutation ==
  [][\A s, t \in Slots :
       C34_SecondWrite(s, t)
         => \A p \in Products : InitStock = stock'[p] + (Held(p))']_vars

\* C35: when a first create has made the customer known and two further
\* creates for that phone then overlap and all three succeed, the customer's
\* totalPurchases is 3 and totalSpent the sum of the three totals once both
\* have responded.
C35_NoLostAggregateUpdate ==
  (/\ req["s1"].no = 2 /\ req["s2"].no = 3
   /\ \A s \in Slots :
        req[s].pc = "done" /\ req[s].op = "create" /\ req[s].res = "ok"
   /\ nextId = 4
   /\ \A id \in 1..3 : sales[id] # NoSale /\ sales[id].customer = "ph1")
    => /\ customers["ph1"] # NoCust
       /\ customers["ph1"].totalPurchases = 3
       /\ customers["ph1"].totalSpent
            = sales[1].total + sales[2].total + sales[3].total

\* C36: a decision on an expense is final whatever the interleaving of the
\* validate and reject requests: no step turns a validated expense into a
\* rejected one or a rejected expense into a validated one
C36_DecisionFinal ==
  [][\A id \in DOMAIN expenses :
       (expenses[id] # NoExp /\ expenses'[id] # NoExp) =>
         /\ ~(expenses[id].status = "validated"
              /\ expenses'[id].status = "rejected")
         /\ ~(expenses[id].status = "rejected"
              /\ expenses'[id].status = "validated")]_vars

\* C37: a record that is persisted carries a non-null customerId, and that
\* id is the one of the customer document whose phone is the record's
\* customer.phone; a customer document of that phone exists
C37_CustomerLinked ==
  [][\A id \in SaleIds :
       (sales[id] = NoSale /\ sales'[id] # NoSale) =>
         /\ sales'[id].customerId # NoId
         /\ sales'[id].customerId = sales'[id].customer
         /\ customers'[sales'[id].customer] # NoCust]_vars

\* C38: an accepted query is answered with an interval whose start is not
\* after its end, also when only from is given and lies after the current
\* instant, and with the label of the rule that produced the interval
C38_IntervalOrdered ==
  (answer # NoAnswer /\ answer.kind = "200")
    => /\ Leq(answer.start, answer.end)
       /\ answer.label = C28_Rule(query)

\* the request of slot s is answered with success by this step
C39_Succeeds(s, pc) ==
  nreq[s].pc = pc /\ nreq'[s].pc = "done" /\ nreq'[s].res = "ok"

\* a field of the entry holds another value after the step
C39_FieldChanged(id) ==
  \/ entries'[id].amount # entries[id].amount
  \/ entries'[id].source # entries[id].source
  \/ entries'[id].description # entries[id].description

\* C39: an entry's status is active or deleted and changes only by a delete
\* (active to deleted) or a restore (deleted to active); a delete succeeds
\* only for an admin on a non-deleted entry, a restore only for an admin on a
\* deleted entry, an edit only for an admin on a non-deleted entry with a
\* non-empty reason and at least one changed field; a rejected request leaves
\* the entries unchanged, and a successful edit appends exactly one
\* editHistory entry whose changes map is non-empty.
C39_EntryStateMachine ==
  [][/\ \A id \in EntryIds :
          (entries[id] # NoEntry /\ entries'[id] # NoEntry) =>
            /\ entries'[id].status \in {"active", "deleted"}
            /\ entries'[id].status # entries[id].status
                 => \E s \in Slots :
                      /\ nreq[s].id = id
                      /\ \/ C39_Succeeds(s, "nd_update")
                            /\ entries'[id].status = "deleted"
                         \/ C39_Succeeds(s, "nr_update")
                            /\ entries'[id].status = "active"
     /\ \A s \in Slots :
          LET r == nreq[s]
              id == r.id IN
          /\ C39_Succeeds(s, "nd_update")
               => /\ RoleOf(r.user) = "admin"
                  /\ entries[id].status # "deleted"
                  /\ entries'[id].status = "deleted"
          /\ C39_Succeeds(s, "nr_update")
               => /\ RoleOf(r.user) = "admin"
                  /\ entries[id].status = "deleted"
                  /\ entries'[id].status = "active"
          /\ C39_Succeeds(s, "ne_update")
               => /\ RoleOf(r.user) = "admin"
                  /\ entries[id].status # "deleted"
                  /\ r.reason \notin {"", "  "}
                  /\ C39_FieldChanged(id)
                  /\ Len(entries'[id].editHistory)
                       = Len(entries[id].editHistory) + 1
                  /\ IsPrefix(entries[id].editHistory,
                              entries'[id].editHistory)
                  /\ entries'[id].editHistory[Len(entries'[id].editHistory)]
                       .changes # {}
          /\ (nreq'[s] # nreq[s] /\ nreq'[s].pc = "done"
                /\ nreq'[s].res # "ok")
               => entries' = entries]_vars

\* the operations C40 speaks of
C40_Ops == {"create", "edit", "complete", "pending", "void", "delete"}

\* C40: under fair scheduling every create, edit, complete, reopen, void and
\* delete request in flight is eventually answered, and answered once: the
\* answer of a request does not change afterwards.  A refused decrement of
\* the create loop is answered with the conflict error in the same step,
\* without another attempt and with the stock untouched, and an edit that
\* started to roll back never returns to its apply loop.
C40_Termination ==
  /\ \A s \in Slots :
       (req[s].pc \notin {"idle", "done"} /\ req[s].op \in C40_Ops)
         ~> (req[s].pc = "done" /\ req[s].res # "none")
  /\ [][\A s \in Slots :
          /\ (req[s].pc = "done" /\ req'[s].no = req[s].no)
               => req'[s] = req[s]
          /\ (req[s].pc = "c_reserve" /\ req'[s] # req[s]
                /\ ~ReserveOK(stock[req[s].items[req[s].i].productId],
                              req[s].items[req[s].i].quantity))
               => /\ req'[s].pc = "done" /\ req'[s].res = "conflict"
                  /\ stock' = stock
          /\ req[s].pc = "e_rollback"
               => req'[s].pc \in {"e_rollback", "done"}]_vars

\* a create was refused at its reservation loop and answered, and an edit
\* that rolled back was answered
C40_Witness ==
  \E s, t \in Slots :
    /\ req[s].op = "create" /\ req[s].pc = "done" /\ req[s].res = "conflict"
    /\ req[t].op = "edit" /\ req[t].pc = "done" /\ req[t].res = "insufficient"

====
